---- MODULE Spec2Model ----
(***************************************************************************)
(* State-machine model of the note-reading game (toby-gif-alt/stavebeta).  *)
(*                                                                         *)
(* The main game (src/unnamed/part_000) is a set of module-level variables *)
(* mutated by three kinds of handlers that the browser runs to completion: *)
(* the animation-frame callback gameLoop, the input handlers               *)
(* handleNoteInput / handleNoteInputWithOctave, and the setTimeout         *)
(* callbacks scheduled by forceSpawnNoteWithDelay.  Each handler is one    *)
(* action.  Handlers are written as operators on a record holding the      *)
(* game variables (the operators follow the statements of the source in    *)
(* order); an action evaluates the handler on the current values and       *)
(* assigns the resulting record back to the variables.                     *)
(*                                                                         *)
(* Units.  Positions are in tenths of a pixel and speeds in tenths of a    *)
(* pixel per frame (0.8 px/frame is 8), so that the arithmetic of the      *)
(* source is exact on integers.  Times are in milliseconds (Date.now()).   *)
(***************************************************************************)
EXTENDS Integers, Sequences, FiniteSets, TLC

(***************************************************************************)
(* Bounds of the model (not program constants).                            *)
(***************************************************************************)
\* canvas.width in pixels; it fixes the stave geometry (drawStaff).
CanvasWidth == 74
\* Date.now() when the page starts, in ms.
StartTime == 10000
\* The clock is not advanced beyond StartTime + Horizon.
Horizon == 300
\* Inputs are accepted by the model while score is below MaxScore (without
\* Piano Mode) or MaxPianoScore (with Piano Mode).
MaxScore == 10
MaxPianoScore == 2
\* Steps of the clock: TimeStep or LongStep.
TimeStep == 75
LongStep == 2250
\* The clock is not advanced by a LongStep beyond StartTime + LongHorizon.
LongHorizon == 4600
\* restartGame is run at most MaxRestarts times.
MaxRestarts == 1
\* At most MaxPending keyboard inputs wait for tryStartMusic at a time.
MaxPending == 2
\* Inputs answered in a session that starts next to a level threshold.
MaxLevelScore == 3
\* Step and horizon of the clock (ms) while a chord is being played slowly.
GraceStep == 475
GraceHorizon == 1000

(***************************************************************************)
(* Pitch model.                                                            *)
(***************************************************************************)
Letters == {"C", "D", "E", "F", "G", "A", "B"}

letterOrder == <<"C", "D", "E", "F", "G", "A", "B">>

\* Array.prototype.indexOf on letterOrder (0-based).
indexOf(letter) == (CHOOSE i \in 1..7 : letterOrder[i] = letter) - 1

noteValues(letter) ==
  CASE letter = "C" -> 0 [] letter = "D" -> 2 [] letter = "E" -> 4
    [] letter = "F" -> 5 [] letter = "G" -> 7 [] letter = "A" -> 9
    [] letter = "B" -> 11

\* scientificToMidi that numbers the octaves from 0.
scientificToMidiFromZero(letter, octave) == octave * 12 + noteValues(letter)

scientificToMidi(letter, octave) == (octave + 1) * 12 + noteValues(letter)

\* getStaffLocalIndex that counts the treble positions from C4 and the bass
\* positions from E2, two steps below the bottom lines.
getStaffLocalIndexFromC(letter, octave, clef) ==
  IF clef = "treble" THEN (octave - 4) * 7 + indexOf(letter)
  ELSE IF clef = "bass" THEN (octave - 2) * 7 + (indexOf(letter) - indexOf("E"))
  ELSE 0

\* getStaffLocalIndex that counts semitones, not diatonic steps.
getStaffLocalIndexChromatic(letter, octave, clef) ==
  IF clef = "treble" THEN scientificToMidi(letter, octave) - scientificToMidi("E", 4)
  ELSE IF clef = "bass" THEN scientificToMidi(letter, octave) - scientificToMidi("G", 2)
  ELSE 0

getStaffLocalIndex(letter, octave, clef) ==
  IF clef = "treble" THEN (octave - 4) * 7 + (indexOf(letter) - indexOf("E"))
  ELSE IF clef = "bass" THEN (octave - 2) * 7 + (indexOf(letter) - indexOf("G"))
  ELSE 0

(***************************************************************************)
(* Note catalog (buildNoteDefinitions).  Arrays are sequences in the       *)
(* order of the source.                                                    *)
(***************************************************************************)
trebleNotes ==
  << <<"A", 5>>, <<"G", 5>>, <<"F", 5>>, <<"E", 5>>, <<"D", 5>>, <<"C", 5>>,
     <<"B", 4>>, <<"A", 4>>, <<"G", 4>>, <<"F", 4>>, <<"E", 4>>, <<"D", 4>>,
     <<"C", 4>>, <<"B", 3>>, <<"A", 3>> >>

bassNotes ==
  << <<"C", 4>>, <<"B", 3>>, <<"A", 3>>, <<"G", 3>>, <<"F", 3>>, <<"E", 3>>,
     <<"D", 3>>, <<"C", 3>>, <<"B", 2>>, <<"A", 2>>, <<"G", 2>>, <<"F", 2>>,
     <<"E", 2>>, <<"D", 2>>, <<"C", 2>> >>

NoteDefinition(p, clef) ==
  [letter |-> p[1], octave |-> p[2], clef |-> clef,
   midi |-> scientificToMidi(p[1], p[2]),
   staffLocalIndex |-> getStaffLocalIndex(p[1], p[2], clef)]

notePositions ==
  LET treble == [i \in 1..Len(trebleNotes) |-> NoteDefinition(trebleNotes[i], "treble")]
      bass   == [i \in 1..Len(bassNotes) |-> NoteDefinition(bassNotes[i], "bass")]
  IN  [treble |-> treble, bass |-> bass,
       grand |-> treble \o bass, hardMode |-> treble \o bass]

(***************************************************************************)
(* Sentinels for JavaScript values that are not numbers.                   *)
(***************************************************************************)
\* null, as passed for userOctave / targetClef by handleNoteInput.
null == -100
\* chordId of a note that is not part of a chord (the property is absent).
NoChordId == 0

(***************************************************************************)
(* Program state.                                                          *)
(***************************************************************************)
VARIABLES
  \* settings, read by the game and fixed during a session
  currentClef, pianoModeActive, pianoModeSettings, maxLedgerLines, music,
  \* game state
  score, lives, notesDestroyed, level, correctAnswers,
  leftHandScore, rightHandScore, gameRunning,
  movingNotes, lastNoteSpawn, noteSpawnRate,
  chordProgress, chordWrongNoteWindow, previousNoteType,
  \* environment: the clock, pending setTimeout callbacks, the music start,
  \* the pitches the random draws of this run can yield, and the score at
  \* which the player stops playing
  now, timers, musicStarted, pendingInputs, drawPool, scoreCap,
  \* the MIDI manager and the MIDI integration, and the pitch or key whose
  \* conversions are being looked at
  midiLayer, probe,
  \* the modular (Phase 1) engine: gameState and the MIDI input queue
  phase1,
  \* history: the number of restartGame calls so far, the number of
  \* gameOver calls and of missed notes in the current session, and the
  \* last wrong input (when it came, the lives it cost, whether it destroyed
  \* a note, and a bit that every wrong input flips)
  session, gameOverCalls, misses, lastWrong

menuVars == <<currentClef, pianoModeActive, pianoModeSettings, maxLedgerLines, music,
              drawPool, scoreCap>>

settingsVars == <<menuVars, probe, phase1>>

gameVars == <<score, lives, notesDestroyed, level, correctAnswers,
              leftHandScore, rightHandScore, gameRunning,
              movingNotes, lastNoteSpawn, noteSpawnRate,
              chordProgress, chordWrongNoteWindow, previousNoteType,
              timers, gameOverCalls, misses, lastWrong>>

envVars == <<now, musicStarted, pendingInputs, session, midiLayer>>

vars == <<settingsVars, gameVars, envVars>>

\* The game variables as one record, the argument and result of the handlers.
\* picks holds the results that the calls of pickRandomNote made by the
\* handler return, in call order.
Game(picks) ==
  [score |-> score, lives |-> lives, notesDestroyed |-> notesDestroyed,
   level |-> level, correctAnswers |-> correctAnswers,
   leftHandScore |-> leftHandScore, rightHandScore |-> rightHandScore,
   gameRunning |-> gameRunning, movingNotes |-> movingNotes,
   lastNoteSpawn |-> lastNoteSpawn, noteSpawnRate |-> noteSpawnRate,
   chordProgress |-> chordProgress, chordWrongNoteWindow |-> chordWrongNoteWindow,
   previousNoteType |-> previousNoteType, timers |-> timers,
   gameOverCalls |-> gameOverCalls, misses |-> misses, lastWrong |-> lastWrong,
   picks |-> picks]

Commit(g) ==
  /\ score' = g.score
  /\ lives' = g.lives
  /\ notesDestroyed' = g.notesDestroyed
  /\ level' = g.level
  /\ correctAnswers' = g.correctAnswers
  /\ leftHandScore' = g.leftHandScore
  /\ rightHandScore' = g.rightHandScore
  /\ gameRunning' = g.gameRunning
  /\ movingNotes' = g.movingNotes
  /\ lastNoteSpawn' = g.lastNoteSpawn
  /\ noteSpawnRate' = g.noteSpawnRate
  /\ chordProgress' = g.chordProgress
  /\ chordWrongNoteWindow' = g.chordWrongNoteWindow
  /\ previousNoteType' = g.previousNoteType
  /\ timers' = g.timers
  /\ gameOverCalls' = g.gameOverCalls
  /\ misses' = g.misses
  /\ lastWrong' = g.lastWrong

isDualClefMode == currentClef = "grand" \/ currentClef = "hardMode"

(***************************************************************************)
(* Stave geometry (drawStaff, createStaff), in tenths of a pixel.  Both    *)
(* staves share x and width, so the spawn position and the collision line  *)
(* are the same for every note.                                            *)
(***************************************************************************)
staffWidth == CanvasWidth * 9
staffX == (CanvasWidth * 10 - staffWidth) \div 2
clefX == staffX + 300
greenLineCollisionX == clefX + 350
spawnX == staffX + staffWidth
\* x below which a note is dropped as off screen (-50 px).
OffScreenX == -500
\* displacement of adjacent chord notes (8 px).
AdjacentOffset == 80

(***************************************************************************)
(* Sequence helpers (Array.prototype.splice / sort).                       *)
(***************************************************************************)
\* s.splice(index, 1) with a 0-based index; no effect when index >= length.
Splice(s, index) ==
  IF index + 1 > Len(s) THEN s
  ELSE SubSeq(s, 1, index) \o SubSeq(s, index + 2, Len(s))

\* The notes of a set in ascending order of pitch (the pitches are distinct).
RECURSIVE SortByPitch(_)
SortByPitch(S) ==
  IF S = {} THEN << >>
  ELSE LET lo == CHOOSE n \in S : \A m \in S : n.midi <= m.midi
       IN  <<lo>> \o SortByPitch(S \ {lo})

SeqToSet(s) == {s[i] : i \in 1..Len(s)}

(***************************************************************************)
(* Random selection of the next note (pickRandomNote, generateChord).      *)
(* Math.random() is a nondeterministic choice: each operator yields the    *)
(* set of results the function can return.  draw is the set of catalog    *)
(* entries a random draw may yield (AllNotes: every outcome).              *)
(***************************************************************************)
\* The result of pickRandomNote: a note object, or an array of notes.
SingleNote(n) == [isArray |-> FALSE, notes |-> <<n>>]
NoteArray(ns) == [isArray |-> TRUE, notes |-> ns]

getNotesForPianoModeHand(hand, clef, availableNotes) ==
  IF hand = "none" THEN << >>
  ELSE LET handNotes == SelectSeq(availableNotes, LAMBDA n : n.clef = clef)
       IN  IF pianoModeSettings.hardMode
           THEN IF clef = "bass"
                THEN SelectSeq(handNotes, LAMBDA n : n.midi <= scientificToMidi("B", 3))
                ELSE IF clef = "treble"
                THEN SelectSeq(handNotes, LAMBDA n : n.midi >= scientificToMidi("C", 4))
                ELSE handNotes
           ELSE handNotes

\* Largest distance in semitones from the base note of a chord.
maxSpread == 12

\* ChordIndexSets that takes any unused draw, whatever its distance from
\* the base note.
RECURSIVE ChordIndexSetsAnySpread(_, _, _, _, _)
ChordIndexSetsAnySpread(sortedNotes, basePitch, used, more, draw) ==
  IF more = 0 THEN {used}
  ELSE LET unused == (1..Len(sortedNotes)) \ used
           drawn == {j \in unused : sortedNotes[j] \in draw}
       IN  IF unused = {} THEN {used}
           ELSE UNION {ChordIndexSetsAnySpread(sortedNotes, basePitch, used \cup {j}, more - 1, draw) :
                         j \in drawn}

\* The index sets generateChord can end with, starting from the used indices
\* `used` with `more` notes still to add.  A note is added by a random draw
\* that is unused and within maxSpread of the base note, or, when 50 draws
\* in a row found none, as the first unused index.
RECURSIVE ChordIndexSets(_, _, _, _, _)
ChordIndexSets(sortedNotes, basePitch, used, more, draw) ==
  IF more = 0 THEN {used}
  ELSE LET unused == (1..Len(sortedNotes)) \ used
           drawn == {j \in unused :
                       /\ sortedNotes[j] \in draw
                       /\ sortedNotes[j].midi - basePitch <= maxSpread
                       /\ basePitch - sortedNotes[j].midi <= maxSpread}
           first == IF unused = {} THEN {}
                    ELSE LET j == CHOOSE k \in unused : \A m \in unused : k <= m
                         IN  IF sortedNotes[j] \in draw THEN {j} ELSE {}
       IN  IF unused = {} THEN {used}
           ELSE UNION {ChordIndexSets(sortedNotes, basePitch, used \cup {j}, more - 1, draw) :
                         j \in drawn \cup first}

generateChord(availableNotes, draw) ==
  IF Len(availableNotes) < 2
  THEN {SingleNote(availableNotes[1])}
  ELSE LET sortedNotes == SortByPitch(SeqToSet(availableNotes))
           sets == UNION {
             LET actualChordSize == IF chordSize < Len(sortedNotes)
                                    THEN chordSize ELSE Len(sortedNotes)
             IN  UNION {
                   ChordIndexSets(sortedNotes, sortedNotes[baseIndex].midi,
                                  {baseIndex}, actualChordSize - 1, draw) :
                   baseIndex \in {b \in 1..(Len(sortedNotes) - actualChordSize + 1) :
                                    sortedNotes[b] \in draw}} :
             chordSize \in 2..4}
       IN  {NoteArray(SortByPitch({sortedNotes[j] : j \in used})) : used \in sets}

RandomOf(arr, draw) == {arr[i] : i \in {j \in 1..Len(arr) : arr[j] \in draw}}

\* One hand's part of the next spawn: a chord, or one note.
HandPart(handMode, handNotes, draw) ==
  IF handMode = "chords" /\ Len(handNotes) >= 2
  THEN {c.notes : c \in generateChord(handNotes, draw)}
  ELSE {<<n>> : n \in RandomOf(handNotes, draw)}

\* pickRandomNote without the ledger line filter.
pickRandomNoteUnfiltered(draw) ==
  {SingleNote(n) : n \in RandomOf(notePositions[currentClef], draw)}

pickRandomNote(draw) ==
  LET arr == notePositions[currentClef]
      filtered ==
        IF maxLedgerLines = 0
        THEN SelectSeq(arr, LAMBDA n : n.staffLocalIndex >= 0 /\ n.staffLocalIndex <= 8)
        ELSE SelectSeq(arr, LAMBDA n : /\ n.staffLocalIndex >= -maxLedgerLines
                                       /\ n.staffLocalIndex <= 8 + maxLedgerLines)
      availableNotes == IF Len(filtered) = 0 THEN arr ELSE filtered
      leftHandMode == pianoModeSettings.leftHand
      rightHandMode == pianoModeSettings.rightHand
      leftHandActive == leftHandMode # "none"
      rightHandActive == rightHandMode # "none"
      bassHand == getNotesForPianoModeHand(leftHandMode, "bass", availableNotes)
      trebleHand == getNotesForPianoModeHand(rightHandMode, "treble", availableNotes)
      anyNote == {SingleNote(n) : n \in RandomOf(availableNotes, draw)}
      OneHand(handMode, handNotes) ==
        IF Len(handNotes) > 0
        THEN IF handMode = "chords" /\ Len(handNotes) >= 2
             THEN generateChord(handNotes, draw)
             ELSE {SingleNote(n) : n \in RandomOf(handNotes, draw)}
        ELSE anyNote
  IN  IF pianoModeActive /\ (leftHandActive \/ rightHandActive)
      THEN IF pianoModeSettings.hardMode /\ leftHandActive /\ rightHandActive
           THEN LET bassParts == IF Len(bassHand) > 0
                                 THEN HandPart(leftHandMode, bassHand, draw) ELSE {<< >>}
                    trebleParts == IF Len(trebleHand) > 0
                                   THEN HandPart(rightHandMode, trebleHand, draw) ELSE {<< >>}
                IN  IF Len(bassHand) > 0 \/ Len(trebleHand) > 0
                    THEN {NoteArray(b \o t) : b \in bassParts, t \in trebleParts}
                    ELSE anyNote
           ELSE (IF leftHandActive THEN OneHand(leftHandMode, bassHand) ELSE {})
                \cup (IF rightHandActive THEN OneHand(rightHandMode, trebleHand) ELSE {})
      ELSE anyNote

AllNotes == SeqToSet(notePositions.grand)

\* The catalog entries with the given pitches.
NotesAt(pitches) == {n \in AllNotes : <<n.letter, n.octave>> \in pitches}

\* The results pickRandomNote can return in the current state.
Picks == pickRandomNote(NotesAt(drawPool))

(***************************************************************************)
(* Spawner (spawnNote, forceSpawnNote, forceSpawnNoteWithTransitionDelay). *)
(***************************************************************************)
\* baseSpeed of spawnNote, in tenths of a pixel per frame.
baseSpeed(lvl) ==
  IF lvl = 1 THEN 8
  ELSE IF lvl = 2 THEN 14
  ELSE IF lvl = 3 THEN 18
  ELSE IF lvl = 4 THEN 22
  ELSE 22 + (lvl - 4) * 4

\* spawnRateForLevel without the floor of 800 ms.
spawnRateForLevelNoFloor(lvl) ==
  IF lvl = 1 THEN 2200
  ELSE IF lvl = 2 THEN 1600
  ELSE IF lvl = 3 THEN 1400
  ELSE IF lvl = 4 THEN 1200
  ELSE 1200 - (lvl - 4) * 50

\* noteSpawnRate as spawnNote sets it after a spawn, in ms.
spawnRateForLevel(lvl) ==
  IF lvl = 1 THEN 2200
  ELSE IF lvl = 2 THEN 1600
  ELSE IF lvl = 3 THEN 1400
  ELSE IF lvl = 4 THEN 1200
  ELSE IF 1200 - (lvl - 4) * 50 > 800 THEN 1200 - (lvl - 4) * 50 ELSE 800

\* canSpawnNote without its occupancy check.
canSpawnNoteAlways(g) == TRUE

\* canSpawnNote that finds a spacing conflict every time.
canSpawnNoteNever(g) == FALSE

\* canSpawnNote with one slot per clef: a spawn is allowed while a clef
\* has no active note.
canSpawnNoteEmptyClef(g) ==
  \E c \in {"bass", "treble"} :
    \A i \in 1..Len(g.movingNotes) : g.movingNotes[i].clef # c

canSpawnNote(g) == ~(Len(g.movingNotes) > 0)

\* xOffset of the index-th (0-based) note of a chord array.
xOffset(noteData, index) ==
  IF index > 0
  THEN LET d == noteData[index + 1].staffLocalIndex - noteData[index].staffLocalIndex
           staffDiff == IF d < 0 THEN -d ELSE d
       IN  IF staffDiff = 1
           THEN (IF index % 2 = 0 THEN -AdjacentOffset ELSE AdjacentOffset)
           ELSE 0
  ELSE 0

\* The moving notes spawnNote creates from the result of pickRandomNote.
\* groupSize is a history field: the number of notes spawned together.
NewMovingNotes(pick, lvl) ==
  [i \in 1..Len(pick.notes) |->
     [x |-> spawnX + (IF pick.isArray THEN xOffset(pick.notes, i - 1) ELSE 0),
      letter |-> pick.notes[i].letter,
      octave |-> pick.notes[i].octave,
      clef |-> pick.notes[i].clef,
      staffLocalIndex |-> pick.notes[i].staffLocalIndex,
      speed |-> baseSpeed(lvl),
      isChord |-> pick.isArray,
      chordId |-> IF pick.isArray THEN now ELSE NoChordId,
      groupSize |-> Len(pick.notes)]]

spawnNote(g) ==
  IF now - g.lastNoteSpawn > g.noteSpawnRate
  THEN IF ~canSpawnNote(g)
       THEN g
       ELSE [g EXCEPT !.movingNotes = @ \o NewMovingNotes(Head(g.picks), g.level),
                      !.picks = Tail(@),
                      !.lastNoteSpawn = now,
                      !.noteSpawnRate = spawnRateForLevel(g.level)]
  ELSE g

forceSpawnNote(g) == spawnNote([g EXCEPT !.lastNoteSpawn = 0])

\* Delay of the respawn that follows a chord, in ms.
TransitionDelay == 150

\* forceSpawnNoteWithDelay(150): the callback is queued with its due time
\* (and, as history, the session that set it).
forceSpawnNoteWithDelay(g) ==
  [g EXCEPT !.timers = Append(@, [due |-> now + TransitionDelay, session |-> session])]

forceSpawnNoteWithTransitionDelay(g, currentNoteWasChord) ==
  LET g1 == IF g.previousNoteType = "chord"
            THEN forceSpawnNoteWithDelay(g)
            ELSE forceSpawnNote(g)
  IN  [g1 EXCEPT !.previousNoteType = IF currentNoteWasChord THEN "chord" ELSE "melody"]

\* gameOver that leaves the game running.
gameOverIgnored(g) == [g EXCEPT !.gameOverCalls = @ + 1]

gameOver(g) == [g EXCEPT !.gameRunning = FALSE, !.gameOverCalls = @ + 1]

(***************************************************************************)
(* Motion and collision engine (updateMovingNotes).                        *)
(***************************************************************************)
\* Map.prototype.delete
MapDelete(m, key) == [k \in (DOMAIN m) \ {key} |-> m[k]]

\* The test of the miss branch: the note has passed the collision line.
reachedGreenLine(note) == note.x < greenLineCollisionX

\* The body of the miss branch for the note at `index`.
missNote(g, index, note) ==
  LET g1 == [g EXCEPT
               !.chordProgress = IF note.isChord /\ note.chordId \in DOMAIN @
                                 THEN MapDelete(@, note.chordId) ELSE @,
               !.movingNotes = Splice(@, index),
               !.lives = @ - 1,
               !.misses = @ + 1]
      g2 == forceSpawnNoteWithTransitionDelay(g1, note.isChord)
  IN  IF g2.lives <= 0 THEN gameOver(g2) ELSE g2

\* movingNotes.forEach(callback) from `index` on: forEach visits the indices
\* below the length the array had when the loop started, and skips those
\* the array no longer has when it gets there.
RECURSIVE forEachMovingNote(_, _, _)
forEachMovingNote(g, index, length) ==
  IF index >= length THEN g
  ELSE IF index >= Len(g.movingNotes) THEN forEachMovingNote(g, index + 1, length)
  ELSE LET note == [g.movingNotes[index + 1] EXCEPT !.x = @ - g.movingNotes[index + 1].speed]
           g1 == [g EXCEPT !.movingNotes[index + 1] = note]
           g2 == IF reachedGreenLine(note) THEN missNote(g1, index, note) ELSE g1
           g3 == IF note.x < OffScreenX
                 THEN [g2 EXCEPT !.movingNotes = Splice(@, index)] ELSE g2
       IN  forEachMovingNote(g3, index + 1, length)

updateMovingNotes(g) == forEachMovingNote(g, 0, Len(g.movingNotes))

\* The body of gameLoop that changes game state.
gameLoopBody(g) == updateMovingNotes(spawnNote(g))

(***************************************************************************)
(* Input resolution engine (handleNoteInputWithOctave).                    *)
(***************************************************************************)
\* maxAge of cleanupStaleChordProgress, in ms.
maxAge == 5000

cleanupStaleChordProgress(g) ==
  LET kept == {id \in DOMAIN g.chordProgress :
                 /\ ~(now - g.chordProgress[id].firstPressTime > maxAge)
                 /\ \E i \in 1..Len(g.movingNotes) :
                      g.movingNotes[i].isChord /\ g.movingNotes[i].chordId = id}
      \* more than 10 entries: only the 5 most recent are kept
      recent == IF Cardinality(kept) > 10
                THEN CHOOSE K \in SUBSET kept :
                       /\ Cardinality(K) = 5
                       /\ \A a \in K, b \in kept \ K :
                            g.chordProgress[a].firstPressTime >= g.chordProgress[b].firstPressTime
                ELSE kept
  IN  [g EXCEPT !.chordProgress = [id \in recent |-> g.chordProgress[id]]]

leftHandActive == pianoModeSettings.leftHand # "none"
rightHandActive == pianoModeSettings.rightHand # "none"

noteIsFromActiveHand(note) ==
  \/ note.clef = "bass" /\ leftHandActive
  \/ note.clef = "treble" /\ rightHandActive

\* The notes the search for the input's note considers.
isCandidate(note, userNote, targetClef) ==
  /\ note.letter = userNote
  /\ IF pianoModeActive /\ pianoModeSettings.hardMode /\ targetClef # "null"
     THEN note.clef = targetClef
     ELSE IF pianoModeActive /\ isDualClefMode
     THEN noteIsFromActiveHand(note)
     ELSE TRUE

\* Index (0-based) of the first note with the least x among the notes at
\* the positions cand (1-based) that passed the filter, or -1.
leftmostIndexOf(notes, cand) ==
  IF cand = {} THEN -1
  ELSE (CHOOSE i \in cand :
          \A j \in cand : notes[i].x < notes[j].x \/ (notes[i].x = notes[j].x /\ i <= j)) - 1

\* 0-based indices of the notes the match loop goes through, in order.
chordIndicesOf(notes, leftmostIndex) ==
  IF leftmostIndex >= 0 /\ notes[leftmostIndex + 1].isChord
  THEN SelectSeq([i \in 1..Len(notes) |-> i - 1],
                 LAMBDA i : notes[i + 1].chordId = notes[leftmostIndex + 1].chordId)
  ELSE IF leftmostIndex >= 0 THEN <<leftmostIndex>> ELSE << >>

\* noteMatches that compares the letters only.
noteMatchesLetter(note, userNote, userOctave) == note.letter = userNote

\* The test of the match loop for one note.
noteMatches(note, userNote, userOctave) ==
  /\ note.letter = userNote
  /\ ~(/\ pianoModeActive /\ pianoModeSettings.strictMode /\ userOctave # null
       /\ note.octave # userOctave)

\* matchedIndex (0-based), or -1 when matchFound is false.
matchedIndexOf(notes, userNote, userOctave, targetClef) ==
  LET leftmostIndex == leftmostIndexOf(notes,
                         {i \in 1..Len(notes) : isCandidate(notes[i], userNote, targetClef)})
      chordIndices == chordIndicesOf(notes, leftmostIndex)
      hits == SelectSeq(chordIndices, LAMBDA i : noteMatches(notes[i + 1], userNote, userOctave))
  IN  IF hits = << >> THEN -1 ELSE Head(hits)

\* Grace period of chord completion, in ms.
gracePeriodsMs == 300

\* Map.prototype.set
MapSet(m, key, value) == [k \in DOMAIN m \cup {key} |-> IF k = key THEN value ELSE m[k]]

\* The chord's entry of chordProgress after the matched letter noteKey has
\* been recorded.
recordPress(g, chordId, noteKey) ==
  LET fresh == [pressedNotes |-> {}, timestamps |-> << >>, firstPressTime |-> now]
      d0 == IF chordId \in DOMAIN g.chordProgress THEN g.chordProgress[chordId] ELSE fresh
      timeSinceFirstPress == now - d0.firstPressTime
      d1 == IF /\ timeSinceFirstPress > gracePeriodsMs
               /\ Cardinality(d0.pressedNotes) > 0
               /\ timeSinceFirstPress > gracePeriodsMs * 3
            THEN fresh ELSE d0
      d2 == [d1 EXCEPT !.pressedNotes = @ \cup {noteKey},
                       !.timestamps = MapSet(@, noteKey, now)]
  IN  d2

\* allPressed with `some` for `every`.
allPressedSome(allNoteLetters, chordData) ==
  \E noteLetter \in allNoteLetters : noteLetter \in chordData.pressedNotes

\* allPressed: every letter of the chord is among the recorded letters.
allPressed(allNoteLetters, chordData) ==
  \A noteLetter \in allNoteLetters : noteLetter \in chordData.pressedNotes

\* The safety reset that follows the allPressed test.
safetyReset(chordData, noteKey, allNoteLetters) ==
  IF Cardinality(chordData.pressedNotes) > Cardinality(allNoteLetters)
  THEN [pressedNotes |-> {noteKey}, timestamps |-> MapSet(<< >>, noteKey, now),
        firstPressTime |-> now]
  ELSE chordData

\* creditHand that credits the left hand whatever the clef.
creditHandLeft(g, clef) ==
  IF pianoModeActive /\ isDualClefMode THEN [g EXCEPT !.leftHandScore = @ + 1] ELSE g

\* Credit of the hand scores for a resolved note on `clef`.
creditHand(g, clef) ==
  IF pianoModeActive /\ isDualClefMode
  THEN IF clef = "bass" THEN [g EXCEPT !.leftHandScore = @ + 1]
       ELSE IF clef = "treble" THEN [g EXCEPT !.rightHandScore = @ + 1]
       ELSE g
  ELSE g

\* creditAnswer that leaves notesDestroyed alone.
creditAnswerScoreOnly(g) ==
  [g EXCEPT !.score = @ + 1, !.correctAnswers = @ + 1]

creditAnswer(g) ==
  [g EXCEPT !.score = @ + 1, !.notesDestroyed = @ + 1, !.correctAnswers = @ + 1]

\* removeChord that removes the first note of the chord only.
removeChordFirst(notes, chordId) ==
  LET first == {i \in 1..Len(notes) :
                  /\ notes[i].isChord /\ notes[i].chordId = chordId
                  /\ \A j \in 1..(i - 1) : ~(notes[j].isChord /\ notes[j].chordId = chordId)}
  IN  [i \in 1..(Len(notes) - Cardinality(first)) |->
         IF \E f \in first : f <= i THEN notes[i + 1] ELSE notes[i]]

removeChord(notes, chordId) ==
  SelectSeq(notes, LAMBDA n : ~(n.isChord /\ n.chordId = chordId))

\* Correct answers / hand score needed for the next level.
LevelThreshold == 10
\* Largest number of lives a bonus life can lead to.
MaxLives == 3

\* levelCheck that lets the level advance as soon as one hand has reached
\* the threshold.
levelCheckEitherHand(g) ==
  IF g.leftHandScore >= LevelThreshold \/ g.rightHandScore >= LevelThreshold
  THEN [advance |-> TRUE, g |-> [g EXCEPT !.leftHandScore = 0, !.rightHandScore = 0]]
  ELSE [advance |-> g.correctAnswers >= LevelThreshold, g |-> g]

\* advanceLevel that grants the bonus life whatever the number of lives.
advanceLevelUncapped(g) ==
  LET g1 == [g EXCEPT !.level = @ + 1, !.correctAnswers = 0, !.movingNotes = << >>]
  IN  IF g1.level = 4 \/ g1.level = 8 THEN [g1 EXCEPT !.lives = @ + 1] ELSE g1

\* "Check for level progression": canAdvanceLevel and the hand scores reset.
levelCheck(g) ==
  IF pianoModeActive /\ isDualClefMode
  THEN IF leftHandActive /\ rightHandActive
       THEN IF g.leftHandScore >= LevelThreshold /\ g.rightHandScore >= LevelThreshold
            THEN [advance |-> TRUE, g |-> [g EXCEPT !.leftHandScore = 0, !.rightHandScore = 0]]
            ELSE [advance |-> FALSE, g |-> g]
       ELSE IF leftHandActive /\ ~rightHandActive
       THEN IF g.leftHandScore >= LevelThreshold
            THEN [advance |-> TRUE, g |-> [g EXCEPT !.leftHandScore = 0]]
            ELSE [advance |-> FALSE, g |-> g]
       ELSE IF ~leftHandActive /\ rightHandActive
       THEN IF g.rightHandScore >= LevelThreshold
            THEN [advance |-> TRUE, g |-> [g EXCEPT !.rightHandScore = 0]]
            ELSE [advance |-> FALSE, g |-> g]
       ELSE [advance |-> g.correctAnswers >= LevelThreshold, g |-> g]
  ELSE [advance |-> g.correctAnswers >= LevelThreshold, g |-> g]

\* Levels at which a bonus life is granted.
isBonusLevel(lvl) == lvl = 4 \/ lvl = 8

advanceLevel(g) ==
  LET g1 == [g EXCEPT !.level = @ + 1, !.correctAnswers = 0, !.movingNotes = << >>]
  IN  IF isBonusLevel(g1.level) /\ g1.lives < MaxLives
      THEN [g1 EXCEPT !.lives = @ + 1] ELSE g1

levelProgression(g) ==
  LET c == levelCheck(g)
  IN  IF c.advance THEN advanceLevel(c.g) ELSE c.g

\* The branch of a matched chord note.
chordMatch(g, matchedNote) ==
  LET chordId == matchedNote.chordId
      allChordNotes == SelectSeq(g.movingNotes, LAMBDA n : n.isChord /\ n.chordId = chordId)
      noteKey == matchedNote.letter
      allNoteLetters == {allChordNotes[i].letter : i \in 1..Len(allChordNotes)}
      chordData == recordPress(g, chordId, noteKey)
  IN  IF allPressed(allNoteLetters, chordData)
      THEN LET g1 == creditHand(creditAnswer(g), matchedNote.clef)
               g2 == [g1 EXCEPT !.movingNotes = removeChord(@, chordId),
                                !.chordProgress = MapDelete(@, chordId)]
               g3 == forceSpawnNoteWithTransitionDelay(g2, TRUE)
           IN  levelProgression(g3)
      ELSE [g EXCEPT !.chordProgress =
              [id \in DOMAIN @ \cup {chordId} |->
                 IF id = chordId THEN safetyReset(chordData, noteKey, allNoteLetters)
                 ELSE @[id]]]

\* The branch of a matched single note.
singleMatch(g, matchedNote, matchedIndex) ==
  LET g1 == creditHand(creditAnswer(g), matchedNote.clef)
      g2 == [g1 EXCEPT !.movingNotes = Splice(@, matchedIndex)]
      g3 == forceSpawnNoteWithTransitionDelay(g2, FALSE)
  IN  levelProgression(g3)

\* windowDuration of chordWrongNoteWindow, in ms.
windowDuration == 150

\* applyForgiveness without the window: every wrong input counts.
applyForgivenessNever(w) ==
  [window |-> [w EXCEPT !.lastWrongNoteTime = now, !.hasCountedError = TRUE],
   shouldCountError |-> TRUE]

\* The forgiveness bookkeeping of a wrong input: the window after it and
\* shouldCountError.
applyForgiveness(w) ==
  LET inWindow == now - w.lastWrongNoteTime < windowDuration
      shouldCountError == ~(inWindow /\ w.hasCountedError)
      w1 == IF inWindow THEN w ELSE [w EXCEPT !.hasCountedError = FALSE]
      w2 == [w1 EXCEPT !.lastWrongNoteTime = now,
                       !.hasCountedError = IF shouldCountError THEN TRUE ELSE @]
  IN  [window |-> w2, shouldCountError |-> shouldCountError]

\* Whether the forgiveness window applies to a wrong input at all.
forgivenessApplies(g) ==
  \/ \E i \in 1..Len(g.movingNotes) : g.movingNotes[i].isChord
  \/ g.previousNoteType = "chord"

\* The branch of an input that matched no note.
wrongAnswer(g) ==
  LET isChordError == \E i \in 1..Len(g.movingNotes) : g.movingNotes[i].isChord
      f == IF forgivenessApplies(g)
           THEN applyForgiveness(g.chordWrongNoteWindow)
           ELSE [window |-> g.chordWrongNoteWindow, shouldCountError |-> TRUE]
      g1 == [g EXCEPT !.chordWrongNoteWindow = f.window]
      victim == leftmostIndexOf(g1.movingNotes,
                  {i \in 1..Len(g1.movingNotes) :
                     IF pianoModeActive /\ isDualClefMode
                     THEN noteIsFromActiveHand(g1.movingNotes[i]) ELSE TRUE})
      g2 == IF victim >= 0
            THEN LET note == g1.movingNotes[victim + 1]
                     g1a == IF note.isChord
                            THEN [g1 EXCEPT !.movingNotes = removeChord(@, note.chordId),
                                            !.chordProgress = MapDelete(@, note.chordId)]
                            ELSE [g1 EXCEPT !.movingNotes = Splice(@, victim)]
                 IN  forceSpawnNoteWithTransitionDelay(g1a, isChordError)
            ELSE g1
      g3 == IF f.shouldCountError THEN [g2 EXCEPT !.lives = @ - 1] ELSE g2
      g4 == [g3 EXCEPT !.lastWrong = [at |-> now, cost |-> g.lives - g3.lives,
                                      hit |-> victim >= 0, flip |-> 1 - @.flip]]
  IN  IF g4.lives <= 0 THEN gameOver(g4) ELSE g4

handleNoteInputWithOctave(g, userNote, userOctave, targetClef) ==
  IF ~g.gameRunning THEN g
  ELSE LET g1 == cleanupStaleChordProgress(g)
           matchedIndex == matchedIndexOf(g1.movingNotes, userNote, userOctave, targetClef)
       IN  IF matchedIndex >= 0
           THEN LET matchedNote == g1.movingNotes[matchedIndex + 1]
                IN  IF matchedNote.isChord
                    THEN chordMatch(g1, matchedNote)
                    ELSE singleMatch(g1, matchedNote, matchedIndex)
           ELSE wrongAnswer(g1)

(***************************************************************************)
(* MIDI input (registerMidiNoteHandler).                                   *)
(***************************************************************************)
\* midi-utils: 'bass' for notes <= B3 (59), 'treble' for notes >= C4 (60).
getClefForMidiNote(midiNote) == IF midiNote <= 59 THEN "bass" ELSE "treble"

(***************************************************************************)
(* MIDI utilities (midi-utils).  A note name is the sequence of its        *)
(* characters, so that charAt(0) and includes('#') are computed.           *)
(***************************************************************************)
noteNames ==
  << <<"C">>, <<"C", "#">>, <<"D">>, <<"D", "#">>, <<"E">>, <<"F">>,
     <<"F", "#">>, <<"G">>, <<"G", "#">>, <<"A">>, <<"A", "#">>, <<"B">> >>

\* String.prototype.charAt(0) and String.prototype.includes('#').
charAt0(name) == name[1]
includesSharp(name) == \E i \in 1..Len(name) : name[i] = "#"

\* midiToScientific of the game: the scientific name is the name and the
\* octave.
midiToScientific(midi) ==
  LET octave == (midi \div 12) - 1
      noteIndex == midi % 12
  IN  [letter |-> charAt0(noteNames[noteIndex + 1]), octave |-> octave,
       scientific |-> <<noteNames[noteIndex + 1], octave>>]

midiNoteToMapping(midiNote) ==
  LET octave == (midiNote \div 12) - 1
      noteIndex == midiNote % 12
      fullNoteName == noteNames[noteIndex + 1]
      naturalNote == charAt0(fullNoteName)
  IN  [midiNote |-> midiNote, noteName |-> naturalNote, octave |-> octave,
       scientific |-> <<fullNoteName, octave>>]

isNaturalNote(midiNote) == (midiNote % 12) \in {0, 2, 4, 5, 7, 9, 11}

\* getClosestNaturalNote that maps a black key to the white key above it.
getClosestNaturalNoteAbove(midiNote) ==
  IF isNaturalNote(midiNote) THEN midiNote ELSE midiNote + 1

getClosestNaturalNote(midiNote) ==
  IF isNaturalNote(midiNote) THEN midiNote
  ELSE LET noteInOctave == midiNote % 12
           octave == midiNote \div 12
           naturalNoteInOctave ==
             CASE noteInOctave = 1 -> 0
               [] noteInOctave = 3 -> 2
               [] noteInOctave = 6 -> 5
               [] noteInOctave = 8 -> 7
               [] noteInOctave = 10 -> 9
               [] OTHER -> noteInOctave
       IN  octave * 12 + naturalNoteInOctave

getNaturalNoteForGame(midiNote) ==
  LET noteIndex == midiNote % 12
      fullNoteName == noteNames[noteIndex + 1]
  IN  IF includesSharp(fullNoteName)
      THEN charAt0(noteNames[(getClosestNaturalNote(midiNote) % 12) + 1])
      ELSE charAt0(fullNoteName)

\* MidiManager.midiNoteToMapping: the mapping of the closest natural note,
\* with the key that was pressed as originalMidiNote.
managerNoteToMapping(midiNote) ==
  LET mapping == midiNoteToMapping(getClosestNaturalNote(midiNote))
  IN  [midiNote |-> mapping.midiNote, noteName |-> mapping.noteName,
       octave |-> mapping.octave, scientific |-> mapping.scientific,
       originalMidiNote |-> midiNote]

(***************************************************************************)
(* MIDI manager and MIDI integration.  The variable midiLayer holds        *)
(*   inputs            the ports of midiAccess.inputs,                     *)
(*   onmidimessage     the ports whose onmidimessage is handleMidiMessage, *)
(*   connectedDevices  the keys of the Map, in insertion order,            *)
(*   selectedDeviceId  the selected device, or NoDevice,                   *)
(*   inputCallbacks    the registered callbacks, in order,                 *)
(*   isActive          pianoModeSettings.isActive of the integration,      *)
(*   storage           the Piano Mode flag in localStorage,                *)
(*   isAndroid         whether the user agent is Android.                  *)
(***************************************************************************)
\* The input ports of the machine: a keyboard and the through port of the
\* system.
Ports == {"Keyboard", "MIDI Through Port-0"}

\* selectedDeviceId = null.
NoDevice == ""

\* The callback of registerMidiNoteHandler.
NoteHandler == "registerMidiNoteHandler"

\* The ports whose name contains one of the unwanted patterns ('through').
UnwantedPorts == {"MIDI Through Port-0"}

\* localStorage: no saved settings, or noteGameSettings.pianoMode.active.
StorageValues == {"absent", "active", "inactive"}

shouldFilterDevice(m, input) ==
  IF m.isAndroid
  THEN input \in UnwantedPorts
  ELSE input \in UnwantedPorts /\ ~(Cardinality(m.inputs) <= 1)

disconnectDevice(m, deviceId) ==
  IF deviceId \in m.inputs
  THEN [m EXCEPT !.onmidimessage = @ \ {deviceId}]
  ELSE m

selectDevice(m, deviceId) ==
  IF ~(deviceId \in SeqToSet(m.connectedDevices)) THEN m
  ELSE LET m1 == IF m.selectedDeviceId # NoDevice
                 THEN disconnectDevice(m, m.selectedDeviceId) ELSE m
       IN  IF ~(deviceId \in m1.inputs) THEN m1
           ELSE [m1 EXCEPT !.onmidimessage = @ \cup {deviceId},
                           !.selectedDeviceId = deviceId]

\* The name of the device has a keyboard keyword, or neither 'through' nor
\* 'unknown'.
looksLikeKeyboard(deviceId) == deviceId \notin UnwantedPorts

selectBestAvailableDevice(m) ==
  LET deviceIds == m.connectedDevices
      preferred == SelectSeq(deviceIds, looksLikeKeyboard)
  IN  IF Len(deviceIds) = 0 THEN m
      ELSE IF Len(deviceIds) = 1 THEN selectDevice(m, deviceIds[1])
      ELSE selectDevice(m, IF preferred # << >> THEN preferred[1] ELSE deviceIds[1])

\* The 'deviceConnected' listener of initializeMidiIntegration.
onDeviceConnected(m) == [m EXCEPT !.isActive = TRUE]

\* The 'deviceDisconnected' listener of initializeMidiIntegration.
onDeviceDisconnected(m) ==
  IF Len(m.connectedDevices) = 0 THEN [m EXCEPT !.isActive = FALSE] ELSE m

addDeviceInternal(m, input) ==
  IF shouldFilterDevice(m, input) THEN m
  ELSE LET m1 == IF input \in SeqToSet(m.connectedDevices) THEN m
                 ELSE [m EXCEPT !.connectedDevices = Append(@, input)]
           m2 == IF m1.selectedDeviceId = NoDevice
                 THEN selectBestAvailableDevice(m1) ELSE m1
       IN  onDeviceConnected(m2)

removeDevice(m, deviceId) ==
  IF ~(deviceId \in SeqToSet(m.connectedDevices)) THEN m
  ELSE LET m1 == [m EXCEPT !.connectedDevices = SelectSeq(@, LAMBDA d : d # deviceId)]
           m2 == IF m1.selectedDeviceId = deviceId
                 THEN selectBestAvailableDevice([m1 EXCEPT !.selectedDeviceId = NoDevice])
                 ELSE m1
       IN  onDeviceDisconnected(m2)

\* setEnabled, with midiAccess already granted (after initializeMidi).
setEnabled(m, enabled) ==
  IF ~enabled /\ m.selectedDeviceId # NoDevice
  THEN [disconnectDevice(m, m.selectedDeviceId) EXCEPT !.selectedDeviceId = NoDevice]
  ELSE m

\* status & 0xF0 of a status byte.
messageType(status) == (status \div 16) * 16

\* handleMidiMessage that takes every note-on for a key press, whatever its
\* velocity.
handleMidiMessageAnyVelocity(m, data) ==
  IF Len(data) < 3 THEN << >>
  ELSE IF messageType(data[1]) = 144
       THEN [i \in 1..Len(m.inputCallbacks) |->
               [callback |-> m.inputCallbacks[i], mapping |-> managerNoteToMapping(data[2])]]
       ELSE << >>

\* handleMidiMessage: the calls of the input callbacks it makes, in order,
\* each with the mapping it passes.
handleMidiMessage(m, data) ==
  IF Len(data) < 3 THEN << >>
  ELSE LET status == data[1]
           note == data[2]
           velocity == data[3]
       IN  IF messageType(status) = 144 /\ velocity > 0
           THEN [i \in 1..Len(m.inputCallbacks) |->
                   [callback |-> m.inputCallbacks[i], mapping |-> managerNoteToMapping(note)]]
           ELSE << >>

onNoteInput(m, callback) == [m EXCEPT !.inputCallbacks = Append(@, callback)]

clearNoteInputCallbacks(m) == [m EXCEPT !.inputCallbacks = << >>]

\* initializePianoModeUI: the saved settings of the menu replace the
\* settings of the integration.
initializePianoModeUI(m) ==
  IF m.storage = "absent" THEN m
  ELSE [m EXCEPT !.isActive = (m.storage = "active")]

reinitializeMidiAfterRestart(m) ==
  onNoteInput(clearNoteInputCallbacks(initializePianoModeUI(m)), NoteHandler)

\* The MIDI layer when the script has loaded: initializePianoModeUI, then
\* initializeMidiIntegration, without a port.
MidiLoaded(storage, isAndroid) ==
  onNoteInput(
    initializePianoModeUI(
      [inputs |-> {}, onmidimessage |-> {}, connectedDevices |-> << >>,
       selectedDeviceId |-> NoDevice, inputCallbacks |-> << >>,
       isActive |-> FALSE, storage |-> storage, isAndroid |-> isAndroid]),
    NoteHandler)

\* The MIDI layer of a session played with the keyboard of the computer
\* (no port), or in Piano Mode with one MIDI keyboard.
MidiSession ==
  IF pianoModeActive
  THEN addDeviceInternal([MidiLoaded("active", FALSE) EXCEPT !.inputs = {"Keyboard"}],
                         "Keyboard")
  ELSE MidiLoaded("inactive", FALSE)

\* No conversion is being looked at.
NoProbe == [kind |-> "none"]

(***************************************************************************)
(* The modular (Phase 1) engine: gameState, spawnIfNeeded, update,          *)
(* onUserPitch and the MIDI input queue.  The variable phase1 holds         *)
(*   mode, level, elapsedInLevelMs   gameState (elapsed time in ms, kept    *)
(*                        up to the 60 s at which the speed ramp is full),  *)
(*   active               the note of each clef, or NoNote; a note has its  *)
(*                        pitch, x in 1/1000 px and speed in 1/1000 px/s,   *)
(*   suppliers            the clefs whose supplier (nextTreble, nextBass)   *)
(*                        is set,                                           *)
(*   inputs, attached     the MIDI input ports, and those whose             *)
(*                        onmidimessage is the handler of attachInputs,     *)
(*   noteQueue, rafScheduled   the queue of note-ons and the pending flush, *)
(*   arrived              history: the number of note-ons queued so far,    *)
(*   last                 history: the last operation, the calls of onScore *)
(*                        and of onMiss it made, and the notes it passed to *)
(*                        onPitch.                                          *)
(***************************************************************************)
CLEF_HIT_X == 180
rightX == 420
base == 120
perLevel == 24
\* intraRampCap, in 1/1000.
intraRampCap == 150
\* The time after which the ramp is at its cap (ms).
rampTime == 60000
\* The largest dt of a tick (ms).
maxDt == 33
\* The notes a flush passes on at most.
flushSize == 8

NoNote == [pitch |-> << >>, x |-> 0, speedPxSec |-> 0]

\* speedFor, in 1/1000 px per second.
speedFor(lvl, elapsedInLevelMs) ==
  LET ramped == (elapsedInLevelMs * intraRampCap) \div rampTime
      ramp == 1000 + (IF intraRampCap < ramped THEN intraRampCap ELSE ramped)
  IN  (base + (lvl - 1) * perLevel) * ramp

DigitChars == <<"0", "1", "2", "3", "4", "5", "6", "7", "8", "9">>

isDigit(c) == \E d \in 1..10 : DigitChars[d] = c

digitValue(c) == (CHOOSE d \in 1..10 : DigitChars[d] = c) - 1

\* parseInt of a sequence of digits.
RECURSIVE parseInt(_)
parseInt(digits) ==
  IF digits = << >> THEN 0
  ELSE 10 * parseInt(SubSeq(digits, 1, Len(digits) - 1)) + digitValue(digits[Len(digits)])

\* noteNumberForPitch that takes the octave for the MIDI octave (C4 = 48).
noteNumberForPitchFromZero(pitch) ==
  IF Len(pitch) < 2 \/ pitch[1] \notin Letters THEN null
  ELSE noteValues(pitch[1]) + 12 * parseInt(SubSeq(pitch, 2, Len(pitch)))

\* noteNumberForPitch: the MIDI number of a pitch such as C4, F#5 or Bb3,
\* null when the text is not of that form.
noteNumberForPitch(pitch) ==
  IF Len(pitch) < 2 \/ pitch[1] \notin Letters THEN null
  ELSE LET hasAccidental == pitch[2] \in {"b", "#"}
           octave == SubSeq(pitch, IF hasAccidental THEN 3 ELSE 2, Len(pitch))
           noteValue == noteValues(pitch[1])
                          + (IF pitch[2] = "#" THEN 1 ELSE IF pitch[2] = "b" THEN -1 ELSE 0)
       IN  IF octave = << >> \/ \E i \in 1..Len(octave) : ~isDigit(octave[i])
           THEN null
           ELSE (parseInt(octave) + 1) * 12 + noteValue

\* spawnOne: the supplier of the clef returns a note of pitch `pitch`.
spawnOne(e, clef, pitch) ==
  IF clef \notin e.suppliers THEN e
  ELSE [e EXCEPT !.active[clef] =
          [pitch |-> pitch, x |-> rightX * 1000,
           speedPxSec |-> speedFor(e.level, e.elapsedInLevelMs)]]

\* spawnIfNeeded that fills one clef at a time in piano mode.
spawnIfNeededOneClef(e, pitches) ==
  IF e.mode = "piano"
  THEN IF e.active.treble = NoNote THEN spawnOne(e, "treble", pitches.treble)
       ELSE IF e.active.bass = NoNote THEN spawnOne(e, "bass", pitches.bass)
       ELSE e
  ELSE IF e.active.treble = NoNote /\ e.active.bass = NoNote
       THEN spawnOne(e, "treble", pitches.treble) ELSE e

\* spawnIfNeeded; pitches.treble and pitches.bass are what the suppliers
\* return when they are called.
spawnIfNeeded(e, pitches) ==
  IF e.mode = "piano"
  THEN LET e1 == IF e.active.treble = NoNote
                 THEN spawnOne(e, "treble", pitches.treble) ELSE e
       IN  IF e1.active.bass = NoNote THEN spawnOne(e1, "bass", pitches.bass) ELSE e1
  ELSE IF e.active.treble = NoNote /\ e.active.bass = NoNote
       THEN spawnOne(e, "treble", pitches.treble) ELSE e

\* The forEach body of update for one clef: the note moves left, and is
\* missed at the clef.
moveLeft(e, clef, dtMs) ==
  IF e.active[clef] = NoNote THEN e
  ELSE LET n == e.active[clef]
           x == n.x - (n.speedPxSec * dtMs) \div 1000
       IN  IF x <= CLEF_HIT_X * 1000
           THEN [e EXCEPT !.active[clef] = NoNote, !.last.onMiss = @ + 1]
           ELSE [e EXCEPT !.active[clef].x = x]

update(e, dtMs, pitches) ==
  LET e1 == moveLeft(moveLeft(e, "treble", dtMs), "bass", dtMs)
  IN  IF e1.mode = "piano"
      THEN IF e1.active.treble = NoNote \/ e1.active.bass = NoNote
           THEN spawnIfNeeded(e1, pitches) ELSE e1
      ELSE IF e1.active.treble = NoNote /\ e1.active.bass = NoNote
           THEN spawnIfNeeded(e1, pitches) ELSE e1

\* tryHit: the engine after the call; the call returned true when
\* last.onScore has grown.
tryHit(e, clef, pitchNum) ==
  LET n == e.active[clef]
  IN  IF n = NoNote THEN e
      ELSE IF noteNumberForPitch(n.pitch) = pitchNum
           THEN [e EXCEPT !.active[clef] = NoNote, !.last.onScore = @ + 1]
           ELSE e

\* onUserPitch that tries both clefs.
onUserPitchBothClefs(e, pitchNum) == tryHit(tryHit(e, "treble", pitchNum), "bass", pitchNum)

onUserPitch(e, pitchNum) ==
  LET e1 == tryHit(e, "treble", pitchNum)
  IN  IF e1.last.onScore > e.last.onScore THEN e1
      ELSE tryHit(e, "bass", pitchNum)

\* attachInputs: the handlers of the old ports are removed, every port of
\* midi.inputs gets the handler.
attachInputs(e) == [e EXCEPT !.attached = e.inputs]

\* panic: the queue is emptied and the handlers are removed.
panic(e) == [e EXCEPT !.noteQueue = << >>, !.attached = {}]

\* scheduleFlush.
scheduleFlush(e) == [e EXCEPT !.rafScheduled = TRUE]

\* The onmidimessage handler of attachInputs (144 is 0x90, 128 is 0x80,
\* 176 is 0xB0).
onmidimessage(e, data) ==
  LET status == data[1]
      note == data[2]
      vel == data[3]
      type == (status \div 16) * 16
  IN  IF type = 144 /\ vel > 0
      THEN scheduleFlush([e EXCEPT !.noteQueue = Append(@, note), !.arrived = @ + 1])
      ELSE IF type = 128 \/ (type = 144 /\ vel = 0)
      THEN e
      ELSE IF status = 176 /\ note = 123
      THEN [e EXCEPT !.noteQueue = << >>]
      ELSE e

\* onPitch for each note of `take`, in order: e1 is the engine after the
\* call for the first note.
RECURSIVE onPitchEach(_, _)
onPitchEach(e, take) ==
  IF take = << >> THEN e
  ELSE CHOOSE result \in {onPitchEach(e1, Tail(take)) : e1 \in {onUserPitch(e, Head(take))}} :
         TRUE

\* The requestAnimationFrame callback of scheduleFlush.
flush(e) ==
  LET n == IF Len(e.noteQueue) < flushSize THEN Len(e.noteQueue) ELSE flushSize
      take == SubSeq(e.noteQueue, 1, n)
  IN  onPitchEach([e EXCEPT !.rafScheduled = FALSE,
                            !.noteQueue = SubSeq(@, n + 1, Len(@)),
                            !.last.onPitch = take],
                  take)

\* The history of an operation that has made no call yet.
Calls(op) == [op |-> op, onScore |-> 0, onMiss |-> 0, onPitch |-> << >>]

\* gameState as the module defines it; no MIDI access yet.
Phase1Loaded ==
  [mode |-> "normal", level |-> 1, elapsedInLevelMs |-> 0,
   active |-> [treble |-> NoNote, bass |-> NoNote], suppliers |-> {},
   inputs |-> {}, attached |-> {}, noteQueue |-> << >>, rafScheduled |-> FALSE,
   arrived |-> 0, last |-> Calls("load")]

(***************************************************************************)
(* Initial states.                                                         *)
(***************************************************************************)
GameStart ==
  /\ score = 0
  /\ lives = 3
  /\ notesDestroyed = 0
  /\ level = 1
  /\ correctAnswers = 0
  /\ leftHandScore = 0
  /\ rightHandScore = 0
  /\ gameRunning = TRUE
  /\ movingNotes = << >>
  /\ lastNoteSpawn = 0
  /\ noteSpawnRate = 2200
  /\ chordProgress = << >>
  /\ chordWrongNoteWindow = [lastWrongNoteTime |-> 0, hasCountedError |-> FALSE]
  /\ previousNoteType = "melody"
  /\ now = StartTime
  /\ timers = << >>
  /\ musicStarted = FALSE
  /\ pendingInputs = << >>
  /\ session = 0
  /\ gameOverCalls = 0
  /\ misses = 0
  /\ lastWrong = [at |-> 0, cost |-> 0, hit |-> FALSE, flip |-> 0]
  /\ scoreCap = IF pianoModeActive THEN MaxPianoScore ELSE MaxScore

\* The start of a game; the modular engine is loaded and not started.
NewGame == GameStart /\ phase1 = Phase1Loaded

\* The start of a session, with the MIDI layer of the session.
NewSession ==
  /\ NewGame
  /\ midiLayer = MidiSession
  /\ probe = NoProbe

NoPianoMode == [leftHand |-> "none", rightHand |-> "none", strictMode |-> FALSE, hardMode |-> FALSE]

\* Piano Mode settings of the piano specification: a melody hand and a
\* chord hand on the grand staff, and hard mode with two melody hands.
PianoSettings ==
  { [clef |-> "grand",
     piano |-> [leftHand |-> "melody", rightHand |-> "chords",
                strictMode |-> FALSE, hardMode |-> FALSE]] }

\* The game without Piano Mode on the treble or the bass staff, music off.
InitNormal ==
  /\ currentClef \in {"treble", "bass"}
  /\ drawPool = {<<"E", 4>>, <<"G", 4>>, <<"G", 2>>, <<"B", 2>>}
  /\ pianoModeActive = FALSE
  /\ pianoModeSettings = NoPianoMode
  /\ maxLedgerLines = 4
  /\ music = FALSE
  /\ NewSession

\* The same with the background music on or off (gameSettings.music).
InitMusic ==
  /\ currentClef = "treble"
  /\ drawPool = {<<"E", 4>>, <<"G", 4>>}
  /\ pianoModeActive = FALSE
  /\ pianoModeSettings = NoPianoMode
  /\ maxLedgerLines = 4
  /\ music \in BOOLEAN
  /\ NewSession

\* Piano Mode: chords of two notes.
InitPiano ==
  /\ \E c \in PianoSettings : currentClef = c.clef /\ pianoModeSettings = c.piano
  /\ drawPool = {<<"E", 4>>, <<"G", 4>>, <<"G", 2>>, <<"B", 2>>}
  /\ pianoModeActive = TRUE
  /\ maxLedgerLines = 4
  /\ music = FALSE
  /\ NewSession

\* Piano Mode: chords of two and of three notes.
InitMisses ==
  /\ \E c \in PianoSettings : currentClef = c.clef /\ pianoModeSettings = c.piano
  /\ drawPool = {<<"E", 4>>, <<"G", 4>>, <<"B", 4>>, <<"G", 2>>}
  /\ pianoModeActive = TRUE
  /\ maxLedgerLines = 4
  /\ music = FALSE
  /\ NewSession

\* Hard mode: both hands play single notes, each on its own staff.
InitHard ==
  /\ currentClef = "hardMode"
  /\ pianoModeSettings = [leftHand |-> "melody", rightHand |-> "melody",
                          strictMode |-> FALSE, hardMode |-> TRUE]
  /\ drawPool = {<<"G", 2>>, <<"E", 4>>, <<"G", 4>>}
  /\ pianoModeActive = TRUE
  /\ maxLedgerLines = 4
  /\ music = FALSE
  /\ NewSession

\* Piano Mode with strict octave matching.
InitStrict ==
  /\ currentClef = "grand"
  /\ pianoModeSettings = [leftHand |-> "melody", rightHand |-> "chords",
                          strictMode |-> TRUE, hardMode |-> FALSE]
  /\ drawPool = {<<"G", 2>>, <<"E", 4>>, <<"G", 4>>}
  /\ pianoModeActive = TRUE
  /\ maxLedgerLines = 4
  /\ music = FALSE
  /\ NewSession

\* Piano Mode with the right hand playing chords of two and three notes.
InitGrace ==
  /\ currentClef = "grand"
  /\ pianoModeSettings = [leftHand |-> "none", rightHand |-> "chords",
                          strictMode |-> FALSE, hardMode |-> FALSE]
  /\ drawPool = {<<"E", 4>>, <<"G", 4>>, <<"B", 4>>}
  /\ pianoModeActive = TRUE
  /\ maxLedgerLines = 4
  /\ music = FALSE
  /\ NewSession

\* The hands enabled in the sessions that start next to a level threshold.
HandSettings ==
  { [leftHand |-> h[1], rightHand |-> h[2], strictMode |-> FALSE, hardMode |-> FALSE] :
      h \in {<<"melody", "melody">>, <<"melody", "none">>, <<"none", "melody">>} }

\* The levels such a session is at.
StartLevels == {1, 3, 7}

\* Piano Mode on the grand staff, single notes, in the middle of a session:
\* every enabled hand is one answer short of the level threshold, the answer
\* before has just respawned a note, and a note may have been missed.
InitLevels ==
  /\ currentClef = "grand"
  /\ pianoModeSettings \in HandSettings
  /\ drawPool = {<<"G", 2>>, <<"E", 4>>}
  /\ pianoModeActive = TRUE
  /\ maxLedgerLines = 4
  /\ music = FALSE
  /\ level \in StartLevels
  /\ lives \in {2, 3}
  /\ misses = 3 - lives
  /\ leftHandScore = IF leftHandActive THEN LevelThreshold - 1 ELSE 0
  /\ rightHandScore = IF rightHandActive THEN LevelThreshold - 1 ELSE 0
  /\ correctAnswers = leftHandScore + rightHandScore
  /\ score = (level - 1) * (correctAnswers + Cardinality({h \in {"l", "r"} :
                 IF h = "l" THEN leftHandActive ELSE rightHandActive}))
              + correctAnswers
  /\ notesDestroyed = score
  /\ scoreCap = score + MaxLevelScore
  /\ gameRunning = TRUE
  /\ now = StartTime
  /\ \E pick \in Picks : movingNotes = NewMovingNotes(pick, level)
  /\ lastNoteSpawn = now
  /\ noteSpawnRate = spawnRateForLevel(level)
  /\ chordProgress = << >>
  /\ chordWrongNoteWindow = [lastWrongNoteTime |-> 0, hasCountedError |-> FALSE]
  /\ previousNoteType = "melody"
  /\ timers = << >>
  /\ musicStarted = FALSE
  /\ pendingInputs = << >>
  /\ session = 0
  /\ gameOverCalls = 0
  /\ lastWrong = [at |-> 0, cost |-> 0, hit |-> FALSE, flip |-> 0]
  /\ midiLayer = MidiSession
  /\ probe = NoProbe
  /\ phase1 = Phase1Loaded

(***************************************************************************)
(* Actions: one per handler.                                               *)
(***************************************************************************)
\* Stands for a result of pickRandomNote that the handler does not ask for.
NoPick == SingleNote(notePositions.treble[1])

\* The type of the results of the calls of pickRandomNote a handler makes:
\* each is a note of the catalog or an array of them.
PickPairs == Seq([isArray : BOOLEAN, notes : Seq(AllNotes)])

\* Runs a handler, given as the function H from the results of
\* pickRandomNote to the state it leaves.  The handler calls pickRandomNote
\* at most twice: the results are chosen among Picks for the calls it
\* really makes.
RunHandler(H) ==
  LET t0 == H[<<NoPick, NoPick>>]
  IN  IF Len(t0.picks) = 2 THEN Commit(t0)
      ELSE \E p1 \in Picks :
             LET t1 == H[<<p1, NoPick>>]
             IN  IF Len(t1.picks) = 1 THEN Commit(t1)
                 ELSE \E p2 \in Picks : Commit(H[<<p1, p2>>])

\* One animation frame.
GameLoop ==
  /\ gameRunning
  /\ RunHandler([p \in PickPairs |-> gameLoopBody(Game(p))])
  /\ UNCHANGED <<settingsVars, envVars>>

ScoreCap == scoreCap

\* A key or an on-screen button: handleNoteInput.  With the music on and
\* not yet started the handler waits for tryStartMusic before it goes on.
KeyInput ==
  \E userNote \in Letters :
    /\ gameRunning
    /\ score < ScoreCap
    /\ IF music /\ ~musicStarted
       THEN /\ Len(pendingInputs) < MaxPending
            /\ pendingInputs' = Append(pendingInputs, userNote)
            /\ UNCHANGED <<settingsVars, gameVars, now, musicStarted, session, midiLayer>>
       ELSE /\ RunHandler([p \in PickPairs |-> handleNoteInputWithOctave(Game(p), userNote, null, "null")])
            /\ UNCHANGED <<settingsVars, envVars>>

\* tryStartMusic has finished for the oldest waiting input: handleNoteInput
\* goes on with handleNoteInputWithOctave.
ResumeInput ==
  /\ pendingInputs # << >>
  /\ musicStarted' = TRUE
  /\ pendingInputs' = Tail(pendingInputs)
  /\ RunHandler([p \in PickPairs |-> handleNoteInputWithOctave(Game(p), Head(pendingInputs), null, "null")])
  /\ UNCHANGED <<settingsVars, now, session, midiLayer>>

\* The MIDI keys pressed: those of the notes drawn, and middle C.
MidiKeys == drawPool \cup {<<"C", 4>>}

\* targetClef as registerMidiNoteHandler passes it on.
targetClefOf(key) ==
  IF pianoModeActive /\ pianoModeSettings.hardMode
  THEN getClefForMidiNote(scientificToMidi(key[1], key[2]))
  ELSE "null"

\* The MIDI key `key`: registerMidiNoteHandler calls handleNoteInputWithOctave.
MidiInputKey(key) ==
  LET targetClef == targetClefOf(key)
      shouldProcessInput ==
        (pianoModeActive /\ pianoModeSettings.hardMode)
          => (IF targetClef = "bass" THEN leftHandActive ELSE rightHandActive)
  IN  /\ score < ScoreCap
      /\ shouldProcessInput
      /\ RunHandler([p \in PickPairs |-> handleNoteInputWithOctave(Game(p), key[1], key[2], targetClef)])
      /\ UNCHANGED <<settingsVars, envVars>>

MidiInput == \E key \in MidiKeys : MidiInputKey(key)

\* The oldest setTimeout callback of forceSpawnNoteWithDelay runs.
TimerFire ==
  /\ timers # << >>
  /\ now >= Head(timers).due
  /\ RunHandler([p \in PickPairs |-> forceSpawnNote([Game(p) EXCEPT !.timers = Tail(@)])])
  /\ UNCHANGED <<settingsVars, envVars>>

\* Time passes, by d at most; a timeout callback runs when it is due.
Advance(d) ==
  /\ \A i \in 1..Len(timers) : now < timers[i].due
  /\ now' = IF timers # << >> /\ Head(timers).due < now + d THEN Head(timers).due ELSE now + d
  /\ UNCHANGED <<settingsVars, gameVars, musicStarted, pendingInputs, session, midiLayer>>

AdvanceShort ==
  now + TimeStep <= StartTime + Horizon /\ Advance(TimeStep)

AdvanceLong ==
  now + LongStep <= StartTime + LongHorizon /\ Advance(LongStep)

AdvanceGrace ==
  now + GraceStep <= StartTime + GraceHorizon /\ Advance(GraceStep)

\* restartState that leaves the score, the level and the spawn interval of
\* the session before.
restartStateKeepsScore(g) ==
  [g EXCEPT !.gameRunning = TRUE, !.lives = 3, !.notesDestroyed = 0,
            !.correctAnswers = 0, !.leftHandScore = 0, !.rightHandScore = 0,
            !.chordProgress = << >>, !.previousNoteType = "melody",
            !.chordWrongNoteWindow = [lastWrongNoteTime |-> 0, hasCountedError |-> FALSE],
            !.movingNotes = << >>, !.lastNoteSpawn = 0,
            !.gameOverCalls = 0, !.misses = 0]

\* The state restartGame sets up (misses and gameOverCalls are history of
\* the session and start again).
restartState(g) ==
  [g EXCEPT !.gameRunning = TRUE,
            !.lives = 3,
            !.notesDestroyed = 0,
            !.score = 0,
            !.level = 1,
            !.correctAnswers = 0,
            !.leftHandScore = 0,
            !.rightHandScore = 0,
            !.chordProgress = << >>,
            !.previousNoteType = "melody",
            !.chordWrongNoteWindow = [lastWrongNoteTime |-> 0, hasCountedError |-> FALSE],
            !.movingNotes = << >>,
            !.lastNoteSpawn = 0,
            !.noteSpawnRate = 2200,
            !.gameOverCalls = 0,
            !.misses = 0]

\* The restart button, shown by gameOver: restartGame.  With the music off
\* it runs to its end, the call of gameLoop; with the music on it waits
\* for startAllMusicTracks first and the game loop starts later.
restartGame ==
  /\ ~gameRunning
  /\ session < MaxRestarts
  /\ session' = session + 1
  /\ midiLayer' = reinitializeMidiAfterRestart(midiLayer)
  /\ RunHandler([p \in PickPairs |-> IF music THEN restartState(Game(p)) ELSE gameLoopBody(restartState(Game(p)))])
  /\ UNCHANGED <<settingsVars, now, musicStarted, pendingInputs>>

(***************************************************************************)
(* Specifications.                                                         *)
(***************************************************************************)
\* The game without Piano Mode.
NextNormal == GameLoop \/ KeyInput \/ AdvanceLong \/ restartGame
Spec == InitNormal /\ [][NextNormal]_vars

\* Piano Mode with a MIDI keyboard.
NextPiano == GameLoop \/ MidiInput \/ TimerFire \/ AdvanceShort
SpecPiano == InitPiano /\ [][NextPiano]_vars

\* Piano Mode with nobody playing: every note is missed.
NextMisses == GameLoop \/ TimerFire \/ AdvanceShort \/ restartGame
SpecMisses == InitMisses /\ [][NextMisses]_vars

\* The game with the music on: the first inputs wait for the music.
NextMusic == GameLoop \/ KeyInput \/ ResumeInput \/ AdvanceLong
SpecMusic == InitMusic /\ [][NextMusic]_vars

\* Hard mode with a MIDI keyboard.
SpecHard == InitHard /\ [][NextPiano]_vars

\* Strict octave matching with a MIDI keyboard.
SpecStrict == InitStrict /\ [][NextPiano]_vars

\* Chords played slowly on a MIDI keyboard.
NextGrace == GameLoop \/ MidiInput \/ TimerFire \/ AdvanceGrace
SpecGrace == InitGrace /\ [][NextGrace]_vars

\* Sessions next to a level threshold, with a MIDI keyboard.
NextLevels == GameLoop \/ MidiInput \/ AdvanceShort
SpecLevels == InitLevels /\ [][NextLevels]_vars

(***************************************************************************)
(* Properties.                                                             *)
(***************************************************************************)
\* The active notes of `notes` that belong to chord c.
ChordNotes(notes, c) ==
  {i \in 1..Len(notes) : notes[i].isChord /\ notes[i].chordId = c}

\* The chords with a note that passes the collision line at the next tick.
ChordsAtLine ==
  {movingNotes[i].chordId :
     i \in {j \in 1..Len(movingNotes) :
              /\ movingNotes[j].isChord
              /\ reachedGreenLine([movingNotes[j] EXCEPT !.x = @ - movingNotes[j].speed])}}

\* C1: a tick in which a chord reaches the collision line removes every
\* note of that chord and takes exactly one life, whatever the size of
\* the chord.
C1_ChordMissRemovesChord ==
  [][GameLoop /\ ChordsAtLine # {}
       => /\ \A c \in ChordsAtLine : ChordNotes(movingNotes', c) = {}
          /\ lives' = lives - 1]_vars

\* C2: in every state, the notes of each chord are all active or all gone:
\* an active chord note has as many active notes of its chord as were
\* spawned with it.
C2_ChordAllOrNone ==
  \A i \in 1..Len(movingNotes) :
    movingNotes[i].isChord
      => Cardinality(ChordNotes(movingNotes, movingNotes[i].chordId)) = movingNotes[i].groupSize

\* C3: in every state the active notes are one spawn group at most: none,
\* or one note that is not of a chord, or notes of one and the same chord.
C3_OneSpawnGroup ==
  \/ movingNotes = << >>
  \/ Len(movingNotes) = 1 /\ ~movingNotes[1].isChord
  \/ \A i, j \in 1..Len(movingNotes) :
       /\ movingNotes[i].isChord
       /\ movingNotes[i].chordId = movingNotes[j].chordId

\* C3 witness: a chord is active after an answer was given, a note was
\* missed and a delayed respawn is pending.
C3_ChordAfterRespawns ==
  /\ Len(movingNotes) = 2
  /\ movingNotes[1].isChord
  /\ score > 0
  /\ misses > 0
  /\ previousNoteType = "chord"

\* The letters of the active notes of chord c, and the letters recorded
\* for c in the chord progress map cp.
ChordLetters(c) == {movingNotes[i].letter : i \in ChordNotes(movingNotes, c)}

Recorded(cp, c) == IF c \in DOMAIN cp THEN cp[c].pressedNotes ELSE {}

\* C4: in every state and for every MIDI key that matches a note of an
\* active chord, handleNoteInputWithOctave completes the chord exactly when
\* the recorded letters, the key's letter included, contain every letter
\* of the chord's notes.  A completion adds exactly 1 to score,
\* notesDestroyed and correctAnswers and removes the whole chord (the notes
\* active afterwards, if any, are the group the respawn has just spawned);
\* without completion the counters and the notes stay as they are and the
\* letters recorded afterwards do not contain every letter.
C4_ChordCompletion ==
  \A key \in MidiKeys, pick \in Picks :
    LET m == matchedIndexOf(movingNotes, key[1], key[2], targetClefOf(key))
        c == movingNotes[m + 1].chordId
        after == handleNoteInputWithOctave(Game(<<pick, pick>>), key[1], key[2],
                                           targetClefOf(key))
    IN  (gameRunning /\ m >= 0 /\ movingNotes[m + 1].isChord)
          => IF ChordLetters(c) \subseteq (Recorded(chordProgress, c) \cup {key[1]})
             THEN /\ after.score = score + 1
                  /\ after.notesDestroyed = notesDestroyed + 1
                  /\ after.correctAnswers = correctAnswers + 1
                  /\ c \notin DOMAIN after.chordProgress
                  /\ IF previousNoteType = "chord"
                     THEN after.movingNotes = << >> /\ Len(after.timers) = Len(timers) + 1
                     ELSE after.movingNotes = NewMovingNotes(pick, level)
             ELSE /\ after.score = score
                  /\ after.notesDestroyed = notesDestroyed
                  /\ after.correctAnswers = correctAnswers
                  /\ after.movingNotes = movingNotes
                  /\ ~(ChordLetters(c) \subseteq Recorded(after.chordProgress, c))

\* C4 witness: a chord of two notes has been completed by the right hand.
C4_ChordCompleted ==
  /\ rightHandScore = 1
  /\ score = 1
  /\ notesDestroyed = 1
  /\ misses = 0
  /\ lastWrong.flip = 0

\* The wrong input of a step: the step flips lastWrong.
WrongInputStep == lastWrong'.flip # lastWrong.flip

ChordPlay ==
  \/ \E i \in 1..Len(movingNotes) : movingNotes[i].isChord
  \/ previousNoteType = "chord"

C6_GameOverAtThirdMiss ==
  lives + misses = 3
    => /\ gameRunning <=> misses < 3
       /\ gameOverCalls > 0 <=> misses >= 3

\* C6 witness: the third miss has ended the game.
C6_ThreeMisses ==
  /\ misses = 3
  /\ lives = 0
  /\ ~gameRunning
  /\ gameOverCalls = 1

\* C7: the answer that takes level from 1 to 2 resets correctAnswers to 0,
\* clears the active notes and makes the spawn interval that of level 2
\* (1600 ms); every note active at level 2 has the speed of level 2 (1.4).
C7_LevelUp ==
  [][/\ (level = 1 /\ level' = 2)
          => /\ correctAnswers = LevelThreshold - 1
             /\ correctAnswers' = 0
             /\ movingNotes' = << >>
             /\ noteSpawnRate' = spawnRateForLevel(2)
     /\ level' = 2
          => \A i \in 1..Len(movingNotes') : movingNotes'[i].speed = baseSpeed(2)]_vars

\* C8: once gameOver has run (it runs when lives reaches 0), score, lives,
\* level, the hand scores and the active notes stay as they are until
\* restartGame sets the game running again.
C8_FrozenAfterGameOver ==
  [][/\ (gameRunning /\ ~gameRunning') => lives' = 0
     /\ (~gameRunning /\ ~gameRunning')
          => UNCHANGED <<score, lives, level, leftHandScore, rightHandScore, movingNotes>>]_vars

\* C9: the callback of a delayed respawn that was set in an earlier session
\* spawns no note and leaves the spawn timing of the session as it is.
C9_StaleTimerHasNoEffect ==
  [][(TimerFire /\ Head(timers).session < session)
       => UNCHANGED <<movingNotes, lastNoteSpawn, noteSpawnRate>>]_vars

\* C10: while an input that has arrived at handleNoteInput is not yet
\* matched, no tick runs and no later input is matched: the game state
\* changes only by the matching of the oldest waiting input.
C10_InputAtomic ==
  [][(pendingInputs # << >> /\ ~ResumeInput) => UNCHANGED gameVars]_vars

\* The state handleNoteInputWithOctave leaves when the MIDI key `key` is
\* pressed in the current state and pickRandomNote returns `pick`.
AfterMidiKey(key, pick) ==
  handleNoteInputWithOctave(Game(<<pick, pick>>), key[1], key[2], targetClefOf(key))

\* `notes` without the note at the 0-based index m.
Without(notes, m) ==
  [i \in 1..(Len(notes) - 1) |-> IF i <= m THEN notes[i] ELSE notes[i + 1]]

\* The active notes after the group in `notes` has resolved and `rest` is
\* what remains of it: the respawn is immediate, with the notes of `pick`,
\* when nothing remains and the group before was not a chord.
AfterRespawn(rest, pick) ==
  IF previousNoteType = "chord" \/ rest # << >> THEN rest ELSE NewMovingNotes(pick, level)

\* C11: in every state and for every MIDI key that matches an active note
\* that is not of a chord, handleNoteInputWithOctave adds exactly 1 to
\* score and notesDestroyed, adds 1 to correctAnswers (which the level-up,
\* when the answer brings one, then sets to 0), takes no life and counts
\* no miss and no wrong input, and removes exactly that note (the notes
\* active afterwards are the others and, if any, the respawned group; a
\* level-up clears them).  In dual-hand mode an answer that brings no
\* level-up adds 1 to exactly one hand score: the left for a bass note,
\* the right for a treble note.
C11_SingleNoteMatch ==
  \A key \in MidiKeys, pick \in Picks :
    LET m == matchedIndexOf(movingNotes, key[1], key[2], targetClefOf(key))
        note == movingNotes[m + 1]
        after == AfterMidiKey(key, pick)
        levelUp == after.level # level
    IN  (gameRunning /\ m >= 0 /\ ~note.isChord)
          => /\ note.letter = key[1]
             /\ after.score = score + 1
             /\ after.notesDestroyed = notesDestroyed + 1
             /\ after.correctAnswers = IF levelUp THEN 0 ELSE correctAnswers + 1
             /\ after.lives >= lives
             /\ after.misses = misses
             /\ after.lastWrong = lastWrong
             /\ after.movingNotes = IF levelUp THEN << >>
                                    ELSE AfterRespawn(Without(movingNotes, m), pick)
             /\ ~levelUp
                  => IF pianoModeActive /\ isDualClefMode
                     THEN IF note.clef = "bass"
                          THEN /\ after.leftHandScore = leftHandScore + 1
                               /\ after.rightHandScore = rightHandScore
                          ELSE /\ note.clef = "treble"
                               /\ after.rightHandScore = rightHandScore + 1
                               /\ after.leftHandScore = leftHandScore
                     ELSE /\ after.leftHandScore = leftHandScore
                          /\ after.rightHandScore = rightHandScore

\* C11 witness: with both hands enabled, a treble note has been answered
\* and a bass note is active: the right hand has its 10th point, the left
\* hand is still at 9 and no life was lost.
C11_TrebleNoteAnswered ==
  /\ leftHandActive /\ rightHandActive
  /\ rightHandScore = LevelThreshold
  /\ leftHandScore = LevelThreshold - 1
  /\ lives = 3
  /\ Len(movingNotes) = 1
  /\ movingNotes[1].clef = "bass"

\* The positions of the active notes on the clefs of enabled hands.
EnabledNotes ==
  {i \in 1..Len(movingNotes) :
     (pianoModeActive /\ isDualClefMode) => noteIsFromActiveHand(movingNotes[i])}

\* C12: in every state with an active note on the clef of an enabled hand
\* and for every MIDI key that matches no active note,
\* handleNoteInputWithOctave destroys a leftmost such note: the note alone
\* when it is a single note, every note of its chord together with the
\* chord's ChordProgress entry when it is of a chord (the notes active
\* afterwards are the others and, if any, the respawned group).  Score,
\* notesDestroyed and correctAnswers stay as they are, and lives goes down
\* by 1 unless the error is forgiven (not counted), when it stays.
C12_WrongInputDestroysLeftmost ==
  \A key \in MidiKeys, pick \in Picks :
    LET m == matchedIndexOf(movingNotes, key[1], key[2], targetClefOf(key))
        after == AfterMidiKey(key, pick)
        forgiven == ChordPlay /\ now - chordWrongNoteWindow.lastWrongNoteTime < windowDuration
    IN  (gameRunning /\ m < 0 /\ EnabledNotes # {})
          => /\ \E v \in EnabledNotes :
                  /\ \A j \in EnabledNotes : movingNotes[v].x <= movingNotes[j].x
                  /\ IF movingNotes[v].isChord
                     THEN /\ after.movingNotes =
                               AfterRespawn(SelectSeq(movingNotes,
                                  LAMBDA n : ~(n.isChord /\ n.chordId = movingNotes[v].chordId)),
                                  pick)
                          /\ movingNotes[v].chordId \notin DOMAIN after.chordProgress
                     ELSE after.movingNotes = AfterRespawn(Without(movingNotes, v - 1), pick)
             /\ after.score = score
             /\ after.notesDestroyed = notesDestroyed
             /\ after.correctAnswers = correctAnswers
             /\ after.lives = IF forgiven THEN lives ELSE lives - 1

\* C12 witness: a wrong input has destroyed a chord and has cost a life.
C12_ChordDestroyed ==
  /\ lastWrong.hit
  /\ lastWrong.cost = 1
  /\ previousNoteType = "chord"
  /\ score = 0
  /\ misses = 0
  /\ lives = 2

\* The clefs with an active note.
ActiveClefs == {movingNotes[i].clef : i \in 1..Len(movingNotes)}

\* The notes active after the spawner has run (spawnNote with the spawn
\* interval over, as forceSpawnNote runs it) and pickRandomNote returns
\* `pick`.
AfterSpawn(pick) == forceSpawnNote(Game(<<pick, pick>>)).movingNotes

\* C13 as stated: in dual-clef mode, when one clef has an active note and
\* the other has none, the spawner can spawn a note for the empty clef.
C13_EmptyClefIsFilled ==
  (isDualClefMode /\ Cardinality(ActiveClefs) = 1)
    => \E pick \in Picks :
         /\ Len(AfterSpawn(pick)) > Len(movingNotes)
         /\ \E i \in 1..Len(AfterSpawn(pick)) : AfterSpawn(pick)[i].clef \notin ActiveClefs

\* C13 amended: in dual-clef mode too the active notes are one slot: while
\* a note is active on either clef the spawner spawns nothing, whatever
\* pickRandomNote would return, and with no note active it spawns the
\* group pickRandomNote returns.
C13_OneSlotInDualClef ==
  isDualClefMode
    => \A pick \in Picks :
         AfterSpawn(pick) = IF movingNotes # << >> THEN movingNotes
                            ELSE NewMovingNotes(pick, level)

\* C13 witness: in dual-clef mode a bass note, respawned after an answer,
\* has moved for two ticks while the treble clef has no note.
C13_BassActiveTrebleEmpty ==
  /\ isDualClefMode
  /\ ActiveClefs = {"bass"}
  /\ score > 0
  /\ movingNotes[1].x <= spawnX - 2 * movingNotes[1].speed

\* A step that resolves the active group: by a correct answer, by a wrong
\* input that destroys it, or by a miss.
GroupResolves ==
  /\ movingNotes # << >>
  /\ \/ score' = score + 1
     \/ WrongInputStep /\ lastWrong'.hit
     \/ misses' > misses

\* C14: a step that resolves the active group sets a delayed respawn (a
\* timer of 150 ms) exactly when the group was a chord; when it was a
\* single note no timer is set and the respawn is immediate.
C14_DelayAfterChord ==
  [][GroupResolves
       => IF movingNotes[1].isChord
          THEN /\ Len(timers') = Len(timers) + 1
               /\ timers'[Len(timers')].due = now + TransitionDelay
          ELSE timers' = timers]_vars

\* Chord c is active with every note it was spawned with.
ChordIntact(c) ==
  /\ ChordNotes(movingNotes, c) # {}
  /\ \A i \in ChordNotes(movingNotes, c) :
       movingNotes[i].groupSize = Cardinality(ChordNotes(movingNotes, c))

\* C15: a step loses letters recorded for a chord that stays active (its
\* progress is reset) only when more than 900 ms have passed since the
\* chord's first recorded press and no press was recorded since the time
\* of the first; progress whose presses kept arriving is kept and the new
\* letter is added to it.
C15_ProgressKeptWhilePressing ==
  [][\A c \in DOMAIN chordProgress \cap DOMAIN chordProgress' :
       (/\ ChordIntact(c)
        /\ ChordNotes(movingNotes', c) # {}
        /\ ~(chordProgress[c].pressedNotes \subseteq chordProgress'[c].pressedNotes))
         => /\ now - chordProgress[c].firstPressTime > 3 * gracePeriodsMs
            /\ \A k \in DOMAIN chordProgress[c].timestamps :
                 chordProgress[c].timestamps[k] <= chordProgress[c].firstPressTime]_vars

\* C16: in hard mode, in every state and for every MIDI key (it carries
\* its targetClef), the note handleNoteInputWithOctave matches is on the
\* targetClef, and the input does not credit the hand of the other clef.
C16_TargetClefOnly ==
  \A key \in MidiKeys, pick \in Picks :
    LET targetClef == targetClefOf(key)
        m == matchedIndexOf(movingNotes, key[1], key[2], targetClef)
        after == AfterMidiKey(key, pick)
    IN  (pianoModeActive /\ pianoModeSettings.hardMode /\ gameRunning /\ m >= 0)
          => /\ movingNotes[m + 1].clef = targetClef
             /\ targetClef = "treble" => after.leftHandScore <= leftHandScore
             /\ targetClef = "bass" => after.rightHandScore <= rightHandScore

\* C17: in dual-hand mode (Piano Mode, dual clef, a hand enabled) a step
\* changes the level only by 1 and only as a correct answer after whose
\* credit (1 point, to one hand) every enabled hand has a score of 10 or
\* more; the scores of the enabled hands are 0 after the step.
C17_DualHandLevelUp ==
  [][(/\ pianoModeActive /\ isDualClefMode
      /\ leftHandActive \/ rightHandActive
      /\ level' # level)
       => /\ level' = level + 1
          /\ score' = score + 1
          /\ \E credit \in {<<1, 0>>, <<0, 1>>} :
               /\ leftHandActive => /\ leftHandScore + credit[1] >= LevelThreshold
                                     /\ leftHandScore' = 0
               /\ rightHandActive => /\ rightHandScore + credit[2] >= LevelThreshold
                                      /\ rightHandScore' = 0]_vars

\* C17 witness: with both hands enabled the level has advanced after the
\* left hand had waited with 10 points or more for the right hand.
C17_BothHandsAdvanced ==
  /\ leftHandActive /\ rightHandActive
  /\ level \notin StartLevels
  /\ leftHandScore = 0
  /\ rightHandScore = 0
  /\ correctAnswers = 0
  /\ score = scoreCap

\* C18: no step leaves lives above 3 (a session starts with 3 lives or
\* fewer), and a step of a session raises lives only as the step that takes
\* the level to 4 or to 8, by exactly 1 and from less than 3 (restartGame,
\* which starts a session, sets lives to 3).
C18_LivesCapAndBonus ==
  [][/\ lives <= 3
     /\ lives' <= 3
     /\ (lives' > lives /\ session' = session)
          => /\ level' = level + 1
             /\ level' \in {4, 8}
             /\ lives' = lives + 1
             /\ lives < 3]_vars

\* C18 witness: a session that had lost a life by a miss, and none by a
\* wrong input, has reached level 4 or 8 and has 3 lives again.
C18_BonusLifeGranted ==
  /\ level \in {4, 8}
  /\ misses = 1
  /\ lastWrong.flip = 0
  /\ lastWrong.at = 0
  /\ lives = 3

\* The active notes after the first frame of a session: that frame spawns
\* the group pickRandomNote returns, at level 1, and moves it once.
FirstFrameNotes(pick) ==
  [i \in 1..Len(pick.notes) |->
     [NewMovingNotes(pick, 1)[i] EXCEPT !.x = @ - baseSpeed(1)]]

C20_StrictOctave ==
  \A key \in MidiKeys, pick \in Picks :
    LET m == matchedIndexOf(movingNotes, key[1], key[2], targetClefOf(key))
        after == AfterMidiKey(key, pick)
        exact == \E i \in 1..Len(movingNotes) :
                   movingNotes[i].letter = key[1] /\ movingNotes[i].octave = key[2]
    IN  (pianoModeActive /\ pianoModeSettings.strictMode /\ gameRunning)
          => /\ m >= 0 => /\ movingNotes[m + 1].letter = key[1]
                          /\ movingNotes[m + 1].octave = key[2]
             /\ ~exact => /\ after.score = score
                          /\ after.notesDestroyed = notesDestroyed
                          /\ after.correctAnswers = correctAnswers
                          /\ \A c \in DOMAIN after.chordProgress :
                               Recorded(after.chordProgress, c) \subseteq Recorded(chordProgress, c)

\* C20 witness: in strict-octave mode a chord with the note G4 is active,
\* its E is recorded, and a wrong input has been made before.
C20_StrictChordInPlay ==
  /\ pianoModeSettings.strictMode
  /\ lastWrong.hit
  /\ \E i \in 1..Len(movingNotes) :
       /\ movingNotes[i].isChord
       /\ movingNotes[i].letter = "G" /\ movingNotes[i].octave = 4
       /\ Recorded(chordProgress, movingNotes[i].chordId) = {"E"}

(***************************************************************************)
(* The note catalog and the ledger line setting.                           *)
(***************************************************************************)
\* The ledger line settings of the menu (difficulty levels 0 to 4).
LedgerLevels == {0, 1, 2, 3, 4}

\* Every pitch of the catalog: no limit on the random draws.
AllPitches == {<<n.letter, n.octave>> : n \in AllNotes}

\* The game without Piano Mode, in every clef mode and with every ledger
\* line setting; any note of the catalog can be drawn.
InitCatalog ==
  /\ currentClef \in {"treble", "bass", "grand", "hardMode"}
  /\ drawPool = AllPitches
  /\ pianoModeActive = FALSE
  /\ pianoModeSettings = NoPianoMode
  /\ maxLedgerLines \in LedgerLevels
  /\ music = FALSE
  /\ NewSession

\* The game left to itself.
NextCatalog == GameLoop \/ AdvanceLong
SpecCatalog == InitCatalog /\ [][NextCatalog]_vars

\* staffLocalIndex is within maxLedgerLines ledger lines of the staff.
WithinLedgerLines(n) ==
  /\ n.staffLocalIndex >= -maxLedgerLines
  /\ n.staffLocalIndex <= 8 + maxLedgerLines

\* C21: without Piano Mode hand filtering, for every ledger line setting
\* 0..4 and every clef mode, pickRandomNote always has a note to return
\* (the eligible set is never empty), every note it can return has
\* -L <= staffLocalIndex <= 8 + L, and so has every active note.
C21_PickWithinLedgerLines ==
  /\ Picks # {}
  /\ \A pick \in Picks : \A i \in 1..Len(pick.notes) : WithinLedgerLines(pick.notes[i])
  /\ \A i \in 1..Len(movingNotes) : WithinLedgerLines(movingNotes[i])

\* With two ledger lines allowed, the note on the second ledger line above
\* the treble staff (A5, index 10) has been spawned.
C21_SecondLedgerLineSpawned ==
  /\ maxLedgerLines = 2
  /\ \E i \in 1..Len(movingNotes) :
       movingNotes[i].staffLocalIndex = 10 /\ movingNotes[i].clef = "treble"

\* The treble catalog entries F5 (the top line of the staff) and A5.
TrebleF5 == NoteDefinition(<<"F", 5>>, "treble")
TrebleA5 == NoteDefinition(<<"A", 5>>, "treble")

\* C22 as stated: the treble entry F5 has staffLocalIndex 10; pickRandomNote
\* can return it with maxLedgerLines = 4 and cannot with maxLedgerLines = 0,
\* when it returns an entry with an index in 0..8 instead.
C22_F5IsLedgerLineNote ==
  currentClef = "treble"
    => /\ TrebleF5.staffLocalIndex = 10
       /\ maxLedgerLines = 4 => SingleNote(TrebleF5) \in Picks
       /\ maxLedgerLines = 0
            => /\ SingleNote(TrebleF5) \notin Picks
               /\ Picks # {}
               /\ \A pick \in Picks : pick.notes[1].staffLocalIndex \in 0..8

\* C22 amended: the treble entry F5 has staffLocalIndex 8, the top line of
\* the staff, and pickRandomNote can return it with every ledger line
\* setting, 0 and 4 included.  The treble entry with staffLocalIndex 10 is
\* A5: pickRandomNote can return it with maxLedgerLines = 4 and cannot with
\* maxLedgerLines = 0, when it returns an entry with an index in 0..8
\* instead.
C22_F5IsTopLine ==
  currentClef = "treble"
    => /\ TrebleF5.staffLocalIndex = 8
       /\ SingleNote(TrebleF5) \in Picks
       /\ TrebleA5.staffLocalIndex = 10
       /\ maxLedgerLines = 4 => SingleNote(TrebleA5) \in Picks
       /\ maxLedgerLines = 0
            => /\ SingleNote(TrebleA5) \notin Picks
               /\ Picks # {}
               /\ \A pick \in Picks : pick.notes[1].staffLocalIndex \in 0..8

\* With no ledger lines allowed, F5 has been spawned on the treble staff.
C22_F5SpawnedWithoutLedgerLines ==
  /\ currentClef = "treble"
  /\ maxLedgerLines = 0
  /\ \E i \in 1..Len(movingNotes) :
       /\ movingNotes[i].letter = "F"
       /\ movingNotes[i].octave = 5
       /\ movingNotes[i].staffLocalIndex = 8

(***************************************************************************)
(* Speed and spawn interval by level.                                      *)
(***************************************************************************)
\* The highest level a session of the speed specification starts at.
MaxSpeedLevel == 12

\* The game without Piano Mode on the treble staff, in the middle of a
\* session at any level: one answer short of the next level, with the note
\* that the answer before has respawned.
InitSpeed ==
  /\ currentClef = "treble"
  /\ pianoModeSettings = NoPianoMode
  /\ drawPool = {<<"E", 4>>, <<"G", 4>>}
  /\ pianoModeActive = FALSE
  /\ maxLedgerLines = 4
  /\ music = FALSE
  /\ level \in 1..MaxSpeedLevel
  /\ lives = 3
  /\ misses = 0
  /\ leftHandScore = 0
  /\ rightHandScore = 0
  /\ correctAnswers = LevelThreshold - 1
  /\ score = (level - 1) * LevelThreshold + correctAnswers
  /\ notesDestroyed = score
  /\ scoreCap = score + MaxLevelScore
  /\ gameRunning = TRUE
  /\ now = StartTime
  /\ \E pick \in Picks : movingNotes = NewMovingNotes(pick, level)
  /\ lastNoteSpawn = now
  /\ noteSpawnRate = spawnRateForLevel(level)
  /\ chordProgress = << >>
  /\ chordWrongNoteWindow = [lastWrongNoteTime |-> 0, hasCountedError |-> FALSE]
  /\ previousNoteType = "melody"
  /\ timers = << >>
  /\ musicStarted = FALSE
  /\ pendingInputs = << >>
  /\ session = 0
  /\ gameOverCalls = 0
  /\ lastWrong = [at |-> 0, cost |-> 0, hit |-> FALSE, flip |-> 0]
  /\ midiLayer = MidiSession
  /\ probe = NoProbe
  /\ phase1 = Phase1Loaded

NextSpeed == GameLoop \/ KeyInput \/ AdvanceLong
SpecSpeed == InitSpeed /\ [][NextSpeed]_vars

\* The table of the claim: the speed in tenths of a pixel per frame and the
\* spawn interval in ms of level lvl.
TableSpeed(lvl) ==
  CASE lvl = 1 -> 8 [] lvl = 2 -> 14 [] lvl = 3 -> 18 [] lvl = 4 -> 22
    [] OTHER -> 22 + (lvl - 4) * 4

TableInterval(lvl) ==
  CASE lvl = 1 -> 2200 [] lvl = 2 -> 1600 [] lvl = 3 -> 1400 [] lvl = 4 -> 1200
    [] OTHER -> IF 1200 - (lvl - 4) * 50 >= 800 THEN 1200 - (lvl - 4) * 50 ELSE 800

\* The active notes move at the speed, and the spawner waits for the
\* interval, that the table gives for level lvl.
AtTableValues(notes, rate, lvl) ==
  notes # << >>
    => /\ \A i \in 1..Len(notes) : notes[i].speed = TableSpeed(lvl)
       /\ rate = TableInterval(lvl)

\* C23: the notes spawned at level L move at the speed and the spawner then
\* waits for the interval of the table (0.8, 2200), (1.4, 1600),
\* (1.8, 1400), (2.2, 1200) and, from level 5 on,
\* (2.2 + (L-4)*0.4, max(800, 1200 - (L-4)*50)); the spawn interval never
\* increases as the level rises and is never below 800 ms.
C23_SpeedAndIntervalTable ==
  [][/\ AtTableValues(movingNotes, noteSpawnRate, level)
     /\ AtTableValues(movingNotes', noteSpawnRate', level')
     /\ level' >= level
     /\ noteSpawnRate' <= noteSpawnRate
     /\ noteSpawnRate >= 800 /\ noteSpawnRate' >= 800]_vars

\* Level 13 has been reached from level 12 and a note has been spawned
\* there: speed 5.8 and the interval at its floor of 800 ms.
C23_FloorReached ==
  /\ level = MaxSpeedLevel + 1
  /\ correctAnswers = 0
  /\ movingNotes # << >>
  /\ movingNotes[1].speed = 22 + (MaxSpeedLevel - 3) * 4
  /\ noteSpawnRate = 800

(***************************************************************************)
(* Pitch conversions.  probe holds a pitch on a clef with what the         *)
(* conversions of the program make of it.                                  *)
(***************************************************************************)
\* The octaves of the MIDI range: MIDI 0 is C-1 and MIDI 127 is G9.
MinOctave == -1
MaxOctave == 9

\* The pitch letter/octave on the clef, with its staff position
\* (getStaffLocalIndex), its MIDI number (scientificToMidi), and the number
\* converted back by midiToScientific and by midiNoteToMapping.  via and
\* fromIndex are history: how the pitch follows from the pitch looked at
\* before, and the staff position of that pitch.
PitchProbe(letter, octave, clef, via, fromIndex) ==
  [kind |-> "pitch", letter |-> letter, octave |-> octave, clef |-> clef,
   staffLocalIndex |-> getStaffLocalIndex(letter, octave, clef),
   midi |-> scientificToMidi(letter, octave),
   scientific |-> midiToScientific(scientificToMidi(letter, octave)),
   mapping |-> midiNoteToMapping(scientificToMidi(letter, octave)),
   via |-> via, fromIndex |-> fromIndex]

\* Any natural pitch of the MIDI range, on the treble or the bass clef.
InitPitch ==
  /\ currentClef = "treble"
  /\ drawPool = {<<"E", 4>>, <<"G", 4>>}
  /\ pianoModeActive = FALSE
  /\ pianoModeSettings = NoPianoMode
  /\ maxLedgerLines = 4
  /\ music = FALSE
  /\ NewGame
  /\ midiLayer = MidiSession
  /\ \E letter \in Letters, octave \in MinOctave..MaxOctave, clef \in {"treble", "bass"} :
       probe = PitchProbe(letter, octave, clef, "none", 0)

\* The conversions are called for the next letter up: B is followed by C of
\* the next octave.
NextLetter ==
  /\ probe.kind = "pitch"
  /\ LET last == probe.letter = "B"
         letter == IF last THEN "C" ELSE letterOrder[indexOf(probe.letter) + 2]
         octave == IF last THEN probe.octave + 1 ELSE probe.octave
     IN  /\ octave <= MaxOctave
         /\ probe' = PitchProbe(letter, octave, probe.clef, "letter", probe.staffLocalIndex)
  /\ UNCHANGED <<menuVars, phase1, gameVars, envVars>>

\* The conversions are called for the same letter one octave up.
NextOctave ==
  /\ probe.kind = "pitch"
  /\ probe.octave + 1 <= MaxOctave
  /\ probe' = PitchProbe(probe.letter, probe.octave + 1, probe.clef, "octave",
                         probe.staffLocalIndex)
  /\ UNCHANGED <<menuVars, phase1, gameVars, envVars>>

NextPitch == NextLetter \/ NextOctave
SpecPitch == InitPitch /\ [][NextPitch]_vars

\* C24: getStaffLocalIndex gives 0 for E4 on the treble clef and for G2 on
\* the bass clef; the next letter up is one position higher, also from B
\* to C of the next octave; the same letter one octave up is 7 positions
\* higher.
C24_DiatonicStaffIndex ==
  probe.kind = "pitch"
    => /\ (probe.clef = "treble" /\ probe.letter = "E" /\ probe.octave = 4)
            => probe.staffLocalIndex = 0
       /\ (probe.clef = "bass" /\ probe.letter = "G" /\ probe.octave = 2)
            => probe.staffLocalIndex = 0
       /\ probe.via = "letter" => probe.staffLocalIndex = probe.fromIndex + 1
       /\ probe.via = "octave" => probe.staffLocalIndex = probe.fromIndex + 7

\* The step from B4 to C5 on the treble clef has been made: C5 is at
\* position 5, one above B4 at position 4.
C24_SteppedFromB4ToC5 ==
  /\ probe.kind = "pitch"
  /\ probe.clef = "treble" /\ probe.letter = "C" /\ probe.octave = 5
  /\ probe.via = "letter" /\ probe.fromIndex = 4 /\ probe.staffLocalIndex = 5

\* C25: for every natural letter and every octave of the MIDI range, the
\* MIDI number of scientificToMidi, converted back by midiToScientific and
\* by midiNoteToMapping, gives the same letter and the same octave; C4 is
\* 60, A4 is 69, C-1 is 0 and G9 is 127.
C25_MidiRoundTrip ==
  probe.kind = "pitch"
    => /\ probe.scientific.letter = probe.letter
       /\ probe.scientific.octave = probe.octave
       /\ probe.mapping.noteName = probe.letter
       /\ probe.mapping.octave = probe.octave
       /\ (probe.letter = "C" /\ probe.octave = 4) => probe.midi = 60
       /\ (probe.letter = "A" /\ probe.octave = 4) => probe.midi = 69
       /\ (probe.letter = "C" /\ probe.octave = -1) => probe.midi = 0
       /\ (probe.letter = "G" /\ probe.octave = 9) => probe.midi = 127

\* G9 has been converted after F9: MIDI 127 and back to G, octave 9.
C25_G9Converted ==
  /\ probe.kind = "pitch"
  /\ probe.letter = "G" /\ probe.octave = 9 /\ probe.via = "letter"
  /\ probe.midi = 127
  /\ probe.mapping.noteName = "G" /\ probe.mapping.octave = 9

(***************************************************************************)
(* MIDI keys.  probe holds a key of the MIDI range with what the manager   *)
(* and the integration make of it.                                         *)
(***************************************************************************)
\* The highest MIDI note number.
MaxMidiNote == 127

\* The key midiNote: the mapping the manager passes to the callbacks
\* (MidiManager.midiNoteToMapping) and the letter that the callback of
\* registerMidiNoteHandler passes to the game (getNaturalNoteForGame of the
\* mapping's midiNote).  pressed is history: the number of keys looked at
\* before.
KeyProbe(midiNote, pressed) ==
  LET noteMapping == managerNoteToMapping(midiNote)
  IN  [kind |-> "key", key |-> midiNote, mapping |-> noteMapping,
       closest |-> getClosestNaturalNote(midiNote),
       noteForGame |-> getNaturalNoteForGame(noteMapping.midiNote),
       direct |-> getNaturalNoteForGame(midiNote),
       plain |-> midiNoteToMapping(midiNote),
       pressed |-> pressed]

\* Any key of the MIDI range.
InitKeys ==
  /\ currentClef = "treble"
  /\ drawPool = {<<"E", 4>>, <<"G", 4>>}
  /\ pianoModeActive = FALSE
  /\ pianoModeSettings = NoPianoMode
  /\ maxLedgerLines = 4
  /\ music = FALSE
  /\ NewGame
  /\ midiLayer = MidiSession
  /\ \E midiNote \in 0..MaxMidiNote : probe = KeyProbe(midiNote, 0)

\* The key a semitone higher.
KeyAbove ==
  /\ probe.kind = "key"
  /\ probe.key + 1 <= MaxMidiNote
  /\ probe' = KeyProbe(probe.key + 1, 1)
  /\ UNCHANGED <<menuVars, phase1, gameVars, envVars>>

\* The key a semitone lower.
KeyBelow ==
  /\ probe.kind = "key"
  /\ probe.key - 1 >= 0
  /\ probe' = KeyProbe(probe.key - 1, 1)
  /\ UNCHANGED <<menuVars, phase1, gameVars, envVars>>

NextKeys == KeyAbove \/ KeyBelow
SpecKeys == InitKeys /\ [][NextKeys]_vars

\* The sharp in the octave -> the letter of the natural below it.
NaturalBelow(noteInOctave) ==
  CASE noteInOctave = 1 -> "C" [] noteInOctave = 3 -> "D" [] noteInOctave = 6 -> "F"
    [] noteInOctave = 8 -> "G" [] noteInOctave = 10 -> "A"

\* C26: for every MIDI number 0..127 the letter delivered to the game, by
\* getNaturalNoteForGame, by getClosestNaturalNote and by midiNoteToMapping,
\* is a natural letter A-G: a white key keeps its own letter (the pitch
\* letter/octave is the key) and a black key gets the letter of the white
\* key directly below it in the same octave (C#->C, D#->D, F#->F, G#->G,
\* A#->A).
C26_NaturalLetterDelivered ==
  probe.kind = "key"
    => LET own == scientificToMidi(probe.noteForGame, probe.mapping.octave)
       IN  /\ probe.noteForGame \in Letters
           /\ probe.direct = probe.noteForGame
           /\ probe.mapping.noteName = probe.noteForGame
           /\ probe.plain.noteName = probe.noteForGame
           /\ probe.plain.octave = probe.mapping.octave
           /\ probe.closest = own
           /\ IF isNaturalNote(probe.key)
              THEN own = probe.key
              ELSE /\ own = probe.key - 1
                   /\ probe.noteForGame = NaturalBelow(probe.key % 12)

\* The black key C#4 (61) has been pressed after a neighbouring key: the
\* game gets C, octave 4.
C26_CSharp4Pressed ==
  /\ probe.kind = "key"
  /\ probe.key = 61 /\ probe.pressed = 1
  /\ probe.noteForGame = "C" /\ probe.mapping.octave = 4

(***************************************************************************)
(* Chord generation.                                                       *)
(***************************************************************************)
\* Piano Mode with chord hands: on the grand staff, and in hard mode, where
\* both hands get their notes at once.
ChordSettings ==
  { [clef |-> "grand",
     piano |-> [leftHand |-> "chords", rightHand |-> "chords",
                strictMode |-> FALSE, hardMode |-> FALSE]],
    [clef |-> "hardMode",
     piano |-> [leftHand |-> "chords", rightHand |-> "chords",
                strictMode |-> FALSE, hardMode |-> TRUE]],
    [clef |-> "hardMode",
     piano |-> [leftHand |-> "melody", rightHand |-> "chords",
                strictMode |-> FALSE, hardMode |-> TRUE]] }

\* The draws yield the two lowest and two high notes of the bass staff, and
\* four notes of the treble staff.
InitChords ==
  /\ \E c \in ChordSettings : currentClef = c.clef /\ pianoModeSettings = c.piano
  /\ drawPool = {<<"C", 2>>, <<"D", 2>>, <<"A", 3>>, <<"B", 3>>,
                 <<"C", 4>>, <<"E", 4>>, <<"G", 4>>, <<"B", 4>>}
  /\ pianoModeActive = TRUE
  /\ maxLedgerLines = 4
  /\ music = FALSE
  /\ NewSession

\* Nobody plays.
NextChords == GameLoop \/ TimerFire \/ AdvanceShort
SpecChords == InitChords /\ [][NextChords]_vars

\* The chordIds of the active notes.
ActiveChordIds ==
  {movingNotes[i].chordId : i \in {j \in 1..Len(movingNotes) : movingNotes[j].isChord}}

\* C27: in every piano mode, hard mode with both hands enabled included,
\* the active notes that share one chordId are between 2 and 4 notes, of
\* pairwise distinct pitches.
C27_ChordGroupSize ==
  \A c \in ActiveChordIds :
    LET group == ChordNotes(movingNotes, c)
    IN  /\ Cardinality(group) >= 2
        /\ Cardinality(group) <= 4
        /\ \A i, j \in group :
             i # j => scientificToMidi(movingNotes[i].letter, movingNotes[i].octave)
                        # scientificToMidi(movingNotes[j].letter, movingNotes[j].octave)

\* Chords for both hands, on the grand staff and in hard mode.  The draws
\* yield the lowest bass note, a bass note two steps above it, and two
\* bass notes more than an octave above both; and three treble notes.
InitSpread ==
  /\ \E c \in {s \in ChordSettings : s.piano.leftHand = "chords"} :
       currentClef = c.clef /\ pianoModeSettings = c.piano
  /\ drawPool = {<<"C", 2>>, <<"E", 2>>, <<"A", 3>>, <<"B", 3>>,
                 <<"E", 4>>, <<"G", 4>>, <<"B", 4>>}
  /\ pianoModeActive = TRUE
  /\ maxLedgerLines = 4
  /\ music = FALSE
  /\ NewSession

NextSpread == GameLoop \/ TimerFire \/ AdvanceShort
SpecSpread == InitSpread /\ [][NextSpread]_vars

\* The notes pickRandomNote chooses among: the catalog of the clef mode
\* within the ledger lines allowed, or the whole catalog when none is.
EligibleNotes ==
  LET arr == notePositions[currentClef]
      filtered == SelectSeq(arr, WithinLedgerLines)
  IN  IF Len(filtered) = 0 THEN arr ELSE filtered

\* The notes generateChord gets for the hand of the clef, by pitch.
SortedHandNotes(clef) ==
  SortByPitch(SeqToSet(getNotesForPianoModeHand(
    IF clef = "bass" THEN pianoModeSettings.leftHand ELSE pianoModeSettings.rightHand,
    clef, EligibleNotes)))

\* The notes of `notes` on the clef: in hard mode, one hand's part of the
\* array pickRandomNote returns.
HandPartOf(notes, clef) == {notes[i] : i \in {j \in 1..Len(notes) : notes[j].clef = clef}}

\* Semitones between two notes.
PitchDiff(a, b) == IF a.midi >= b.midi THEN a.midi - b.midi ELSE b.midi - a.midi

\* The chords pickRandomNote can return now, each the part of one hand.
ChordsPicked ==
  {part \in {HandPartOf(pick.notes, clef) :
               pick \in {p \in Picks : p.isArray}, clef \in {"bass", "treble"}} :
     Cardinality(part) >= 2}

\* C28 as stated: every chord generateChord can return has a note, the
\* anchor, from which every note of the chord is at most 12 semitones away.
C28_ChordWithinOctave ==
  \A chord \in ChordsPicked :
    \E anchor \in chord : \A n \in chord : PitchDiff(n, anchor) <= maxSpread

\* C28 amended: every chord generateChord can return has a note, the
\* anchor, such that every note of the chord is at most 12 semitones away
\* from it or is a fill-in: one of the lowest notes of the hand, as many as
\* the chord has notes, which is what takes a slot when 50 draws in a row
\* gave no unused note within the octave.
C28_ChordWithinOctaveOrFilled ==
  \A chord \in ChordsPicked :
    \E anchor \in chord :
      \A n \in chord :
        \/ PitchDiff(n, anchor) <= maxSpread
        \/ \E j \in 1..Cardinality(chord) : SortedHandNotes(n.clef)[j] = n

\* A chord with a fill-in has been spawned: the bass chord of A3 and the
\* lowest bass note C2, 21 semitones apart (no draw was within the octave).
C28_FilledChordSpawned ==
  /\ ~pianoModeSettings.hardMode
  /\ Len(movingNotes) = 2
  /\ movingNotes[1].isChord
  /\ movingNotes[1].letter = "C" /\ movingNotes[1].octave = 2
  /\ movingNotes[2].letter = "A" /\ movingNotes[2].octave = 3
  /\ movingNotes[2].chordId = movingNotes[1].chordId


(***************************************************************************)
(* MIDI devices: ports are plugged in and unplugged, a device is chosen in  *)
(* the menu of devices, keys are pressed and released, the game is          *)
(* restarted after a game over.                                             *)
(***************************************************************************)
\* The messages a port sends: note-on of C#4 on channel 1, a soft note-on
\* of G4 on channel 2, note-on of G4 with velocity 0, note-off of G4 and a
\* program change of two bytes.
MidiMessages ==
  { <<144, 61, 100>>, <<145, 67, 1>>, <<144, 67, 0>>, <<128, 67, 64>>, <<192, 5>> }

\* The callback registerMidiNoteHandler registers, called with noteMapping.
registerMidiNoteHandler(g, m, noteMapping) ==
  LET noteForGame == getNaturalNoteForGame(noteMapping.midiNote)
      hard == m.isActive /\ pianoModeSettings.hardMode
      targetClef == IF hard THEN getClefForMidiNote(noteMapping.midiNote) ELSE "null"
      shouldProcessInput ==
        hard => \/ (targetClef = "bass" /\ pianoModeSettings.leftHand # "none")
                \/ (targetClef = "treble" /\ pianoModeSettings.rightHand # "none")
  IN  IF shouldProcessInput
      THEN handleNoteInputWithOctave(g, noteForGame, noteMapping.octave,
             IF pianoModeSettings.hardMode /\ targetClef # "null" THEN targetClef ELSE "null")
      ELSE g

\* inputCallbacks.forEach(callback => callback(mapping)): the game after the
\* calls `calls` of handleMidiMessage, in order.
RECURSIVE DeliverNotes(_, _, _)
DeliverNotes(g, m, calls) ==
  IF calls = << >> THEN g
  ELSE DeliverNotes(registerMidiNoteHandler(g, m, Head(calls).mapping), m, Tail(calls))

\* The message handled last, with whether the port it came from was the
\* selected device, the callbacks registered then and the calls
\* handleMidiMessage made.
MessageProbe(m, port, data) ==
  [kind |-> "message", data |-> data,
   fromSelected |-> (port = m.selectedDeviceId),
   callbacks |-> m.inputCallbacks,
   calls |-> handleMidiMessage(m, data)]

\* The page has loaded, with or without saved settings, and no port is
\* plugged in.  Piano Mode of the game is what the saved settings say.
InitMidi ==
  /\ \E storage \in StorageValues, isAndroid \in BOOLEAN :
       /\ pianoModeActive = (storage = "active")
       /\ midiLayer = MidiLoaded(storage, isAndroid)
  /\ currentClef = IF pianoModeActive THEN "grand" ELSE "treble"
  /\ pianoModeSettings = IF pianoModeActive
                         THEN [leftHand |-> "none", rightHand |-> "melody",
                               strictMode |-> FALSE, hardMode |-> FALSE]
                         ELSE NoPianoMode
  /\ drawPool = {<<"G", 4>>}
  /\ maxLedgerLines = 4
  /\ music = FALSE
  /\ NewGame
  /\ probe = NoProbe

\* onstatechange with a port that is now connected.
Connect(port) ==
  /\ port \notin midiLayer.inputs
  /\ midiLayer' = addDeviceInternal([midiLayer EXCEPT !.inputs = @ \cup {port}], port)
  /\ UNCHANGED <<settingsVars, gameVars, now, musicStarted, pendingInputs, session>>

\* onstatechange with a port that is now disconnected.
Disconnect(port) ==
  /\ port \in midiLayer.inputs
  /\ midiLayer' = removeDevice([midiLayer EXCEPT !.inputs = @ \ {port}], port)
  /\ UNCHANGED <<settingsVars, gameVars, now, musicStarted, pendingInputs, session>>

\* handleDeviceSelection: a device of the list is chosen.
handleDeviceSelection(deviceId) ==
  /\ deviceId \in SeqToSet(midiLayer.connectedDevices)
  /\ midiLayer' = selectDevice(midiLayer, deviceId)
  /\ UNCHANGED <<settingsVars, gameVars, now, musicStarted, pendingInputs, session>>

\* A plugged port whose onmidimessage is handleMidiMessage sends a message.
MidiMessage(port, data) ==
  /\ port \in midiLayer.inputs \cap midiLayer.onmidimessage
  /\ handleMidiMessage(midiLayer, data) # << >> => score < ScoreCap
  /\ probe' = MessageProbe(midiLayer, port, data)
  /\ RunHandler([p \in PickPairs |->
                   DeliverNotes(Game(p), midiLayer, handleMidiMessage(midiLayer, data))])
  /\ UNCHANGED <<menuVars, phase1, envVars>>

NextMidi ==
  \/ \E port \in Ports : Connect(port)
  \/ \E port \in Ports : Disconnect(port)
  \/ \E deviceId \in Ports : handleDeviceSelection(deviceId)
  \/ \E port \in Ports, data \in MidiMessages : MidiMessage(port, data)
  \/ restartGame

SpecMidi == InitMidi /\ [][NextMidi]_vars

\* C29: after every connect or disconnect event of a port, Piano Mode of
\* the MIDI integration is active if and only if the MIDI manager has at
\* least one connected device.
C29_ActiveIffDeviceConnected ==
  [][(midiLayer'.inputs # midiLayer.inputs)
       => (midiLayer'.isActive <=> Len(midiLayer'.connectedDevices) > 0)]_vars

\* C30: for a note-on message (status 0x90 to 0x9F, three bytes) with
\* velocity > 0 from the selected device, handleMidiMessage calls every
\* registered input callback once, in order of registration, with the
\* mapping of the key; for a note-off, a note-on with velocity 0, a message
\* of another type or a message of less than 3 bytes it calls none.
C30_NoteOnDelivered ==
  probe.kind = "message" =>
    LET data == probe.data
        isNote == Len(data) >= 3
    IN  /\ (isNote /\ data[1] \in 144..159 /\ data[3] > 0 /\ probe.fromSelected)
             => /\ Len(probe.calls) = Len(probe.callbacks)
                /\ \A i \in 1..Len(probe.calls) :
                     /\ probe.calls[i].callback = probe.callbacks[i]
                     /\ probe.calls[i].mapping.originalMidiNote = data[2]
        /\ (~isNote \/ (isNote /\ (data[1] \notin 144..159 \/ data[3] = 0)))
             => probe.calls = << >>

\* The selected device has sent the note-on of C#4 and the callback of the
\* game has been called once, with C4: no note was active, a life is lost.
C30_KeyOfSelectedDevicePlayed ==
  /\ probe.kind = "message"
  /\ probe.fromSelected
  /\ probe.data = <<144, 61, 100>>
  /\ probe.callbacks = <<NoteHandler>>
  /\ Len(probe.calls) = 1
  /\ probe.calls[1].mapping.noteName = "C"
  /\ lives = 2


(***************************************************************************)
(* The modular engine on its own (boot, tick): notes move to the clef, the  *)
(* player plays pitches.                                                    *)
(***************************************************************************)
\* The levels of the engine: the first, and one at which a note crosses in
\* about twenty frames.
Phase1Levels == {1, 10}

\* The pitches the suppliers return: F4 and A2 as in boot, Bb3 on the bass
\* staff, and middle C on either staff.
SupplierPitches ==
  [treble : {<<"F", "4">>, <<"C", "4">>},
   bass : {<<"A", "2">>, <<"B", "b", "3">>, <<"C", "4">>}]

\* The keys the player presses: C4, F4, A2, Bb3, and F#4, which is never on
\* the staff.
Phase1Keys == {60, 65, 45, 58, 66}

\* boot has run: the suppliers and the mode are set, spawnIfNeeded has
\* spawned.  The level has lasted almost or more than a minute, so that the
\* speed ramp reaches its cap.
Phase1Booted(mode, lvl, elapsedInLevelMs, pitches) ==
  [spawnIfNeeded([Phase1Loaded EXCEPT !.mode = mode, !.level = lvl,
                                      !.elapsedInLevelMs = elapsedInLevelMs,
                                      !.suppliers = {"treble", "bass"}],
                 pitches)
     EXCEPT !.last = Calls("boot")]

InitPhase1 ==
  /\ currentClef = "treble"
  /\ drawPool = {<<"E", 4>>, <<"G", 4>>}
  /\ pianoModeActive = FALSE
  /\ pianoModeSettings = NoPianoMode
  /\ maxLedgerLines = 4
  /\ music = FALSE
  /\ GameStart
  /\ midiLayer = MidiSession
  /\ probe = NoProbe
  /\ \E mode \in {"normal", "piano"}, lvl \in Phase1Levels,
        elapsedInLevelMs \in {rampTime - maxDt, rampTime}, pitches \in SupplierPitches :
       phase1 = Phase1Booted(mode, lvl, elapsedInLevelMs, pitches)

\* tick: a frame of maxDt ms.  elapsedInLevelSec grows; it is kept up to
\* rampTime, beyond which speedFor does not depend on it.
tick(dtMs) ==
  /\ phase1.suppliers # {}
  /\ \E pitches \in SupplierPitches :
       phase1' = update([phase1 EXCEPT
                           !.elapsedInLevelMs = IF @ + dtMs > rampTime THEN rampTime ELSE @ + dtMs,
                           !.last = Calls("update")],
                        dtMs, pitches)
  /\ UNCHANGED <<menuVars, probe, gameVars, envVars>>

\* The player plays a pitch: onUserPitch.
UserPitch(pitchNum) ==
  /\ phase1.suppliers # {}
  /\ phase1' = onUserPitch([phase1 EXCEPT !.last = [Calls("onUserPitch") EXCEPT
                                                       !.onPitch = <<pitchNum>>]],
                           pitchNum)
  /\ UNCHANGED <<menuVars, probe, gameVars, envVars>>

NextPhase1 ==
  \/ tick(maxDt)
  \/ \E pitchNum \in Phase1Keys : UserPitch(pitchNum)

SpecPhase1 == InitPhase1 /\ [][NextPhase1]_vars

\* The clefs with an active note.
OccupiedClefs(e) == {clef \in {"treble", "bass"} : e.active[clef] # NoNote}

\* The clefs whose note is at the clef after dtMs more.
ReachingClef(e, dtMs) ==
  {clef \in OccupiedClefs(e) :
     e.active[clef].x - (e.active[clef].speedPxSec * dtMs) \div 1000 <= CLEF_HIT_X * 1000}

\* C31: after every update() with both suppliers set, piano mode has a
\* note on each clef and normal mode has exactly one note in all (so a
\* slot emptied by a hit or a miss is refilled by that update), and that
\* update has called onMiss once for each note that reached CLEF_HIT_X,
\* whose slot then holds a new note at the right edge.
C31_OneNotePerSlot ==
  [][(phase1'.last.op = "update" /\ phase1.suppliers = {"treble", "bass"})
       => /\ phase1'.mode = "piano" => OccupiedClefs(phase1') = {"treble", "bass"}
          /\ phase1'.mode = "normal" => Cardinality(OccupiedClefs(phase1')) = 1
          /\ phase1'.last.onMiss = Cardinality(ReachingClef(phase1, maxDt))
          /\ \A clef \in ReachingClef(phase1, maxDt) :
               phase1'.mode = "piano" => phase1'.active[clef].x = rightX * 1000]_vars

\* In piano mode both notes have reached the clef in one update: onMiss was
\* called twice and both slots hold a new note.
C31_BothMissedAndRefilled ==
  /\ phase1.mode = "piano"
  /\ phase1.last.op = "update"
  /\ phase1.last.onMiss = 2
  /\ phase1.active.treble.x = rightX * 1000
  /\ phase1.active.bass.x = rightX * 1000


\* The MIDI numbers of the pitches of the suppliers.
PitchNumber(pitch) ==
  CASE pitch = <<"F", "4">> -> 65
    [] pitch = <<"C", "4">> -> 60
    [] pitch = <<"A", "2">> -> 45
    [] pitch = <<"B", "b", "3">> -> 58

\* The clef has a note whose MIDI number is pitchNum.
Expects(e, clef, pitchNum) ==
  e.active[clef] # NoNote /\ PitchNumber(e.active[clef].pitch) = pitchNum

\* C39: onUserPitch clears the treble slot when its note has the MIDI
\* number of the input, otherwise the bass slot when its note has it, and
\* then calls onScore once; otherwise it leaves both slots as they are and
\* calls nothing.  It never calls onMiss and never clears two slots.
C39_UserPitchHitsOneNote ==
  [][phase1'.last.op = "onUserPitch"
       => LET pitchNum == phase1'.last.onPitch[1]
              hit == IF Expects(phase1, "treble", pitchNum) THEN {"treble"}
                     ELSE IF Expects(phase1, "bass", pitchNum) THEN {"bass"}
                     ELSE {}
          IN  /\ \A clef \in {"treble", "bass"} :
                   phase1'.active[clef] = IF clef \in hit THEN NoNote ELSE phase1.active[clef]
              /\ phase1'.last.onScore = Cardinality(hit)
              /\ phase1'.last.onMiss = 0]_vars

\* Middle C was on both staves and C4 was played: the treble note is gone,
\* the bass note is still there, onScore was called once.
C39_MiddleCOnBothStaves ==
  /\ phase1.last.op = "onUserPitch"
  /\ phase1.last.onPitch = <<60>>
  /\ phase1.last.onScore = 1
  /\ phase1.active.treble = NoNote
  /\ phase1.active.bass # NoNote
  /\ phase1.active.bass.pitch = <<"C", "4">>


(***************************************************************************)
(* The MIDI input queue of the modular engine: note-ons are queued and      *)
(* passed to onUserPitch in the next animation frame.                       *)
(***************************************************************************)
\* The note-ons of a run.
MaxArrivals == 10

\* The messages of the port: note-on of C4 and of F4, note-on with
\* velocity 0, note-off, All Notes Off.
QueueMessages ==
  { <<144, 60, 100>>, <<144, 65, 100>>, <<144, 60, 0>>, <<128, 60, 0>>, <<176, 123, 0>> }

\* initMIDI has attached the handler to the port; boot has spawned F4 and
\* A2 in piano mode.
InitQueue ==
  /\ currentClef = "treble"
  /\ drawPool = {<<"E", 4>>, <<"G", 4>>}
  /\ pianoModeActive = FALSE
  /\ pianoModeSettings = NoPianoMode
  /\ maxLedgerLines = 4
  /\ music = FALSE
  /\ GameStart
  /\ midiLayer = MidiSession
  /\ probe = NoProbe
  /\ phase1 = attachInputs(
       [Phase1Booted("piano", 1, 0, [treble |-> <<"F", "4">>, bass |-> <<"A", "2">>])
          EXCEPT !.inputs = {"Keyboard"}])

\* The port sends a message.
PortMessage(data) ==
  /\ phase1.attached # {}
  /\ (data[1] = 144 /\ data[3] > 0) => phase1.arrived < MaxArrivals
  /\ phase1' = onmidimessage([phase1 EXCEPT !.last = Calls("onmidimessage")], data)
  /\ UNCHANGED <<menuVars, probe, gameVars, envVars>>

\* The animation frame for which scheduleFlush has asked.
AnimationFrame ==
  /\ phase1.rafScheduled
  /\ phase1' = flush([phase1 EXCEPT !.last = Calls("flush")])
  /\ UNCHANGED <<menuVars, probe, gameVars, envVars>>

\* The window loses the focus.
WindowBlur ==
  /\ phase1.attached # {}
  /\ phase1' = panic([phase1 EXCEPT !.last = Calls("panic")])
  /\ UNCHANGED <<menuVars, probe, gameVars, envVars>>

\* The window gets the focus again.
WindowFocus ==
  /\ phase1.inputs # {}
  /\ phase1.attached = {}
  /\ phase1' = attachInputs([phase1 EXCEPT !.last = Calls("attachInputs")])
  /\ UNCHANGED <<menuVars, probe, gameVars, envVars>>

NextQueue ==
  \/ \E data \in QueueMessages : PortMessage(data)
  \/ AnimationFrame
  \/ WindowBlur
  \/ WindowFocus

\* The browser runs every animation frame callback that was asked for.
SpecQueue == InitQueue /\ [][NextQueue]_vars /\ WF_vars(AnimationFrame)

\* C40: a note-on that is queued is eventually passed to onPitch or
\* cleared: whenever the queue is not empty, it is empty again later.
C40_QueuedNoteDelivered ==
  (phase1.noteQueue # << >>) ~> (phase1.noteQueue = << >>)


(***************************************************************************)
(* Wrong inputs in quick succession, in chord play.  probe remembers the    *)
(* last wrong input that cost a life.                                       *)
(***************************************************************************)
\* The right hand plays chords of E4 and G4.
InitForgive ==
  /\ currentClef = "grand"
  /\ pianoModeSettings = [leftHand |-> "none", rightHand |-> "chords",
                          strictMode |-> FALSE, hardMode |-> FALSE]
  /\ drawPool = {<<"E", 4>>, <<"G", 4>>}
  /\ pianoModeActive = TRUE
  /\ maxLedgerLines = 4
  /\ music = FALSE
  /\ NewSession

\* The last wrong input that cost a life, after a step: the wrong input of
\* the step if it cost one, otherwise the one before.
CountedProbe ==
  IF WrongInputStep /\ lastWrong'.cost > 0
  THEN [kind |-> "counted", at |-> now]
  ELSE probe

\* A MIDI key, as MidiInputKey; the last counted wrong input is remembered.
MidiInputCounted(key) ==
  /\ score < ScoreCap
  /\ RunHandler([p \in PickPairs |->
                   handleNoteInputWithOctave(Game(p), key[1], key[2], targetClefOf(key))])
  /\ probe' = CountedProbe
  /\ UNCHANGED <<menuVars, phase1, envVars>>

NextForgive ==
  \/ GameLoop
  \/ \E key \in MidiKeys : MidiInputCounted(key)
  \/ TimerFire
  \/ AdvanceShort

SpecForgive == InitForgive /\ [][NextForgive]_vars

\* C32: a wrong input costs no life only if the last wrong input that cost
\* a life was made less than 150 ms before it; a wrong input made 150 ms or
\* more after the last one that cost a life costs a life, whatever wrong
\* inputs were forgiven in between.
C32_WindowFromCountedInput ==
  [][WrongInputStep
       => /\ lastWrong'.cost = 0
               => probe.kind = "counted" /\ now - probe.at < windowDuration
          /\ (probe.kind = "counted" /\ now - probe.at >= windowDuration)
               => lastWrong'.cost > 0]_vars


(***************************************************************************)
(* Inputs with no note on the staff, the floor of lives, and the counters  *)
(* of the game without Piano Mode.                                         *)
(***************************************************************************)
\* C33: an input received while no note is active (it matches nothing, so
\* it is a wrong input) costs no life and changes no counter.
C33_InputWithoutNoteIsFree ==
  [][(movingNotes = << >> /\ WrongInputStep)
       => /\ lives' = lives
          /\ score' = score /\ notesDestroyed' = notesDestroyed
          /\ level' = level /\ correctAnswers' = correctAnswers
          /\ leftHandScore' = leftHandScore /\ rightHandScore' = rightHandScore]_vars

\* C34: lives is never below 0 and gameOver has been invoked at most once
\* in the current session.
C34_LivesFloorAndOneGameOver == lives >= 0 /\ gameOverCalls <= 1

\* The counters of the game without Piano Mode agree with each other.
CountersAgree ==
  /\ correctAnswers \in 0..(LevelThreshold - 1)
  /\ score = notesDestroyed
  /\ score = LevelThreshold * (level - 1) + correctAnswers

\* C37: without Piano Mode, between events, 0 <= correctAnswers <= 9 and
\* score = notesDestroyed = 10 * (level - 1) + correctAnswers; score and
\* level do not decrease during a session.
C37_CountersAgreeAndGrow ==
  [][(~pianoModeActive)
       => /\ CountersAgree /\ CountersAgree'
          /\ session' = session => score' >= score /\ level' >= level]_vars

\* The tenth correct answer of a session has led to level 2.
C37_SecondLevelReached ==
  ~pianoModeActive /\ score = LevelThreshold /\ level = 2 /\ correctAnswers = 0


(***************************************************************************)
(* Piano Mode on the grand staff with every setting of the two hands.      *)
(***************************************************************************)
\* Settings of the two hands as the menu can leave them (both none is the
\* default of gameSettings.pianoMode).
HandModes ==
  {<<"none", "none">>, <<"melody", "none">>, <<"none", "chords">>, <<"melody", "melody">>}

InitHands ==
  /\ currentClef = "grand"
  /\ pianoModeSettings \in
       { [leftHand |-> h[1], rightHand |-> h[2], strictMode |-> FALSE, hardMode |-> FALSE] :
           h \in HandModes }
  /\ drawPool = {<<"G", 2>>, <<"E", 4>>, <<"G", 4>>}
  /\ pianoModeActive = TRUE
  /\ maxLedgerLines = 4
  /\ music = FALSE
  /\ NewSession

SpecHands == InitHands /\ [][NextPiano]_vars

\* C35: in Piano Mode on the grand staff every active note is on the clef
\* of an enabled hand (bass for the left hand, treble for the right hand).
C35_NotesOnEnabledHands ==
  (pianoModeActive /\ isDualClefMode)
    => \A i \in 1..Len(movingNotes) : noteIsFromActiveHand(movingNotes[i])


(***************************************************************************)
(* The game loop over time: requestAnimationFrame calls gameLoop again     *)
(* while the game is running, and the clock goes on.                       *)
(***************************************************************************)
\* Time passes until the spawn interval has elapsed since the last spawn.
AdvanceToSpawn ==
  /\ gameRunning
  /\ movingNotes = << >>
  /\ now - lastNoteSpawn <= noteSpawnRate
  /\ Advance(lastNoteSpawn + noteSpawnRate + 1 - now)

NextLoop == GameLoop \/ MidiInput \/ AdvanceShort \/ AdvanceToSpawn

\* An animation frame while no note is active.
\* (gameLoop with spawnNote and updateMovingNotes evaluated in turn).
EmptyStaffFrame ==
  /\ gameRunning
  /\ movingNotes = << >>
  /\ \E pick \in Picks :
       \E g1 \in {spawnNote(Game(<<pick, NoPick>>))} :
         \E g2 \in {updateMovingNotes(g1)} : Commit(g2)
  /\ UNCHANGED <<settingsVars, envVars>>

\* Sessions next to a level threshold; the animation frames keep coming and
\* the time keeps passing.
SpecLoop ==
  InitLevels /\ [][NextLoop]_vars /\ WF_vars(EmptyStaffFrame) /\ WF_vars(AdvanceToSpawn)

\* C36: while the game is running, whenever no note is active a note is
\* eventually spawned (or the game has ended).
C36_EmptyStaffRefilled ==
  (gameRunning /\ movingNotes = << >>) ~> (movingNotes # << >> \/ ~gameRunning)

\* A note has been spawned once the spawn interval had elapsed after a
\* level-up cleared the staff.
C36_SpawnedAfterInterval ==
  /\ gameRunning
  /\ level \notin StartLevels
  /\ movingNotes # << >>
  /\ lastNoteSpawn > StartTime


(***************************************************************************)
(* The devices of the MIDI manager: ports are plugged and unplugged, a     *)
(* device is chosen in the list, MIDI input is switched on and off.        *)
(***************************************************************************)
\* setMidiEnabled of the integration: midiManager.setEnabled(enabled).
SetEnabled(enabled) ==
  /\ midiLayer' = setEnabled(midiLayer, enabled)
  /\ UNCHANGED <<settingsVars, gameVars, now, musicStarted, pendingInputs, session>>

NextDevices ==
  \/ \E port \in Ports : Connect(port)
  \/ \E port \in Ports : Disconnect(port)
  \/ \E deviceId \in Ports : handleDeviceSelection(deviceId)
  \/ \E enabled \in BOOLEAN : SetEnabled(enabled)
  \/ \E port \in Ports, data \in MidiMessages : MidiMessage(port, data)

SpecDevices == InitMidi /\ [][NextDevices]_vars

\* C38: the selected device is none or a connected device, and no plugged
\* port other than the selected one has a message handler.
C38_OnlySelectedDeviceHeard ==
  /\ midiLayer.selectedDeviceId \in {NoDevice} \cup SeqToSet(midiLayer.connectedDevices)
  /\ (midiLayer.inputs \cap midiLayer.onmidimessage) \subseteq {midiLayer.selectedDeviceId}

====
